---- MODULE Spec2Model ----
(***************************************************************************)
(* Smart meal planner: the preference store, the meal history, the recipe  *)
(* selector and the sale-aware recommender of src/app.py as state          *)
(* machines.  Strings are TLA+ strings; str.lower, str.strip and the       *)
(* substring test `a in b` are computed character by character.  Money is  *)
(* counted in cents.                                                       *)
(***************************************************************************)
EXTENDS Integers, Sequences, FiniteSets, TLC

(***************************************************************************)
(* Python built-ins used by the code                                       *)
(***************************************************************************)
UpperCase == "ABCDEFGHIJKLMNOPQRSTUVWXYZ"
LowerCase == "abcdefghijklmnopqrstuvwxyz"

\* the i-th character of s, as a string of length 1
CharAt(s, i) == SubSeq(s, i, i)

\* the capital letters, and the lower-case letter of each
UpperSet == {CharAt(UpperCase, i) : i \in 1..Len(UpperCase)}
LowerOf ==
  [c \in UpperSet |->
     CharAt(LowerCase, CHOOSE i \in 1..Len(UpperCase) : CharAt(UpperCase, i) = c)]

\* str.lower on one character
LowerChar(c) == IF c \in UpperSet THEN LowerOf[c] ELSE c

RECURSIVE Lower(_)
\* str.lower
Lower(s) == IF Len(s) = 0 THEN "" ELSE LowerChar(CharAt(s, 1)) \o Lower(Tail(s))

\* a character str.strip removes
IsSpace(c) == c \in {" ", "\t", "\n"}

RECURSIVE LStrip(_)
LStrip(s) == IF Len(s) > 0 /\ IsSpace(CharAt(s, 1)) THEN LStrip(Tail(s)) ELSE s

RECURSIVE RStrip(_)
RStrip(s) ==
  IF Len(s) > 0 /\ IsSpace(CharAt(s, Len(s)))
    THEN RStrip(SubSeq(s, 1, Len(s) - 1))
    ELSE s

\* str.strip
Strip(s) == RStrip(LStrip(s))

\* Python's `sub in s` on strings
IsSubstring(sub, s) ==
  \E i \in 0..(Len(s) - Len(sub)) : SubSeq(s, i + 1, i + Len(sub)) = sub

\* Python's `x in lst` on lists
InList(x, lst) == \E i \in 1..Len(lst) : lst[i] = x

\* list.remove(x): drops the first occurrence of x (callers test `x in lst` first)
ListRemove(lst, x) ==
  IF ~InList(x, lst) THEN lst
  ELSE LET k == CHOOSE i \in 1..Len(lst) :
                   lst[i] = x /\ \A j \in 1..(i - 1) : lst[j] # x
       IN  SubSeq(lst, 1, k - 1) \o SubSeq(lst, k + 1, Len(lst))

\* Python's lst[start:] for any integer start
SliceFrom(lst, start) ==
  LET n == Len(lst)
      s == IF start < 0 THEN (IF n + start < 0 THEN 0 ELSE n + start)
           ELSE (IF start > n THEN n ELSE start)
  IN  SubSeq(lst, s + 1, n)

\* Python's lst[:stop] for stop >= 0
SliceTo(lst, stop) == SubSeq(lst, 1, IF stop > Len(lst) THEN Len(lst) ELSE stop)

Range(f) == {f[i] : i \in DOMAIN f}

Max(a, b) == IF a >= b THEN a ELSE b

(***************************************************************************)
(* SmartMealRotator._create_recipe_database                                *)
(***************************************************************************)
expanded_recipes ==
  [ weekday_breakfast |-> <<
      [ title |-> "Turkey Sausage and Egg Scramble",
        main_ingredients |-> <<"turkey sausage", "eggs", "spinach">>,
        all_ingredients |->
          <<"turkey breakfast sausage", "eggs", "fresh spinach", "bell pepper", "onion", "olive oil">>,
        time |-> 8, calories |-> 280,
        tags |-> <<"high-protein", "healthy">> ],
      [ title |-> "Greek Yogurt Parfait with Granola",
        main_ingredients |-> <<"greek yogurt", "granola", "berries">>,
        all_ingredients |->
          <<"greek yogurt", "granola", "mixed berries", "honey", "nuts">>,
        time |-> 5, calories |-> 320,
        tags |-> <<"quick", "healthy", "protein">> ],
      [ title |-> "Avocado Toast with Turkey Bacon",
        main_ingredients |-> <<"whole grain bread", "avocado", "turkey bacon">>,
        all_ingredients |->
          <<"whole grain bread", "avocado", "turkey bacon", "tomato", "lime">>,
        time |-> 8, calories |-> 350,
        tags |-> <<"healthy-fats", "satisfying">> ],
      [ title |-> "Smoothie Bowl with Protein",
        main_ingredients |-> <<"protein powder", "frozen fruit", "spinach">>,
        all_ingredients |->
          <<"protein powder", "frozen berries", "banana", "spinach", "almond milk", "chia seeds">>,
        time |-> 5, calories |-> 300,
        tags |-> <<"smoothie", "antioxidants">> ]
    >>,
    weekday_lunch |-> <<
      [ title |-> "Grilled Chicken Caesar Wrap",
        main_ingredients |-> <<"grilled chicken", "romaine", "whole wheat tortilla">>,
        all_ingredients |->
          <<"grilled chicken breast", "romaine lettuce", "whole wheat tortilla", "light caesar dressing", "parmesan">>,
        time |-> 10, calories |-> 380,
        tags |-> <<"portable", "high-protein">> ],
      [ title |-> "Quinoa Power Bowl",
        main_ingredients |-> <<"quinoa", "chickpeas", "vegetables">>,
        all_ingredients |->
          <<"quinoa", "chickpeas", "cucumber", "cherry tomatoes", "feta cheese", "olive oil">>,
        time |-> 15, calories |-> 420,
        tags |-> <<"vegetarian", "complete-protein">> ],
      [ title |-> "Turkey and Hummus Wrap",
        main_ingredients |-> <<"sliced turkey", "hummus", "vegetables">>,
        all_ingredients |->
          <<"sliced turkey", "hummus", "whole wheat wrap", "lettuce", "cucumber", "red bell pepper">>,
        time |-> 5, calories |-> 340,
        tags |-> <<"quick", "lean-protein">> ],
      [ title |-> "Black Bean and Rice Bowl",
        main_ingredients |-> <<"black beans", "brown rice", "salsa">>,
        all_ingredients |->
          <<"black beans", "brown rice", "salsa", "corn", "bell peppers", "cilantro">>,
        time |-> 12, calories |-> 360,
        tags |-> <<"vegetarian", "fiber-rich">> ]
    >>,
    weekday_dinner |-> <<
      [ title |-> "Baked Salmon with Roasted Vegetables",
        main_ingredients |-> <<"salmon", "broccoli", "sweet potato">>,
        all_ingredients |->
          <<"salmon fillets", "broccoli", "sweet potato", "olive oil", "lemon", "herbs">>,
        time |-> 25, calories |-> 420,
        tags |-> <<"omega-3", "one-pan">> ],
      [ title |-> "Grilled Chicken with Quinoa",
        main_ingredients |-> <<"chicken breast", "quinoa", "green beans">>,
        all_ingredients |->
          <<"chicken breast", "quinoa", "green beans", "garlic", "olive oil", "lemon">>,
        time |-> 20, calories |-> 380,
        tags |-> <<"lean-protein", "complete">> ],
      [ title |-> "Turkey Meatballs with Zucchini Noodles",
        main_ingredients |-> <<"ground turkey", "zucchini", "marinara">>,
        all_ingredients |->
          <<"lean ground turkey", "zucchini", "marinara sauce", "garlic", "italian herbs">>,
        time |-> 25, calories |-> 320,
        tags |-> <<"low-carb", "lean">> ],
      [ title |-> "Sheet Pan Chicken Fajitas",
        main_ingredients |-> <<"chicken strips", "bell peppers", "onions">>,
        all_ingredients |->
          <<"chicken breast strips", "bell peppers", "onions", "fajita seasoning", "olive oil">>,
        time |-> 20, calories |-> 320,
        tags |-> <<"one-pan", "colorful">> ]
    >>,
    weekend_breakfast |-> <<
      [ title |-> "Buttermilk Pancakes with Turkey Sausage",
        main_ingredients |-> <<"flour", "buttermilk", "turkey sausage">>,
        all_ingredients |->
          <<"flour", "buttermilk", "eggs", "butter", "turkey sausage", "syrup">>,
        time |-> 25, calories |-> 480,
        tags |-> <<"comfort", "weekend-special">> ],
      [ title |-> "Chicken and Waffles (Light)",
        main_ingredients |-> <<"chicken tenders", "waffle mix">>,
        all_ingredients |->
          <<"chicken tenderloins", "waffle mix", "honey", "hot sauce">>,
        time |-> 40, calories |-> 520,
        tags |-> <<"soul-food", "special">> ],
      [ title |-> "Southern Breakfast Hash",
        main_ingredients |-> <<"potatoes", "turkey sausage", "eggs">>,
        all_ingredients |->
          <<"diced potatoes", "turkey sausage", "eggs", "bell peppers", "onions">>,
        time |-> 30, calories |-> 450,
        tags |-> <<"hearty", "one-pan">> ]
    >>,
    weekend_dinner |-> <<
      [ title |-> "Southern Fried Chicken with Mac and Cheese",
        main_ingredients |-> <<"chicken pieces", "pasta", "cheese">>,
        all_ingredients |->
          <<"chicken pieces", "flour", "buttermilk", "elbow pasta", "cheddar cheese">>,
        time |-> 60, calories |-> 720,
        tags |-> <<"soul-food", "comfort">> ],
      [ title |-> "BBQ Ribs with Collard Greens",
        main_ingredients |-> <<"pork ribs", "collard greens">>,
        all_ingredients |->
          <<"pork ribs", "bbq sauce", "collard greens", "smoked turkey", "onions">>,
        time |-> 180, calories |-> 650,
        tags |-> <<"soul-food", "slow-cooked">> ],
      [ title |-> "Shrimp and Grits",
        main_ingredients |-> <<"shrimp", "grits", "bacon">>,
        all_ingredients |->
          <<"shrimp", "stone-ground grits", "bacon", "bell peppers", "onions">>,
        time |-> 35, calories |-> 460,
        tags |-> <<"lowcountry", "seafood">> ]
    >> ]

\* every recipe of the catalog
AllRecipes ==
  UNION {Range(expanded_recipes[g]) : g \in DOMAIN expanded_recipes}

(***************************************************************************)
(* Program constants and bounds of the model                               *)
(***************************************************************************)
\* log_meal keeps the newest 28 entries
HistoryCap == 28

\* strings typed into "Add ingredient to dislike list" / "love list"
RawIngredients == {"garlic", " Garlic", "Olive Oil ", "oil", " "}

\* recipes handed to recipe_contains_dislikes: catalog recipes, a recipe whose
\* ingredients carry capitals, and a record without the all_ingredients key
ProbeRecipes ==
  { expanded_recipes.weekday_dinner[1],
    expanded_recipes.weekday_dinner[2],
    expanded_recipes.weekday_dinner[3],
    [title |-> "Garlic Bread", all_ingredients |-> <<"Baguette", "GARLIC butter">>],
    [title |-> "Olive Tapenade", all_ingredients |-> <<"Olive OIL", "capers">>],
    [title |-> "Mystery Box"] }

(***************************************************************************)
(* State                                                                   *)
(***************************************************************************)
VARIABLES
  disliked_ingredients,  \* preferences["disliked_ingredients"]
  loved_ingredients,     \* preferences["loved_ingredients"]
  never_suggest_again,   \* preferences["never_suggest_again"]
  family_favorites,      \* preferences["family_favorites"]
  last_4_weeks,          \* meal_history["last_4_weeks"]: records [recipe, date]
  today,                 \* the current day, counted in days
  logged,                \* every (recipe, date) pair passed to log_meal, in order
  calendar_events,       \* CalendarIntegrator.calendar_events: date -> events
  meal_plan,             \* st.session_state.meal_plan: day_0 .. day_6
  grocery_list,          \* st.session_state.grocery_list
  kroger_store,          \* st.session_state.kroger_store
  store_cache,           \* the results st.cache_data holds for find_kroger_store
  session_sale_items,    \* st.session_state.sale_items; << >> while it is not set
  rotator_recipes,       \* st.session_state.meal_rotator.expanded_recipes
  session_state,         \* per browser session: the objects its st.session_state names
  objects,               \* the FamilyPreferencesManager objects of the server process
  ret                    \* the last call: its name, arguments and return value

vars == << disliked_ingredients, loved_ingredients, never_suggest_again,
           family_favorites, last_4_weeks, today, logged, calendar_events,
           meal_plan, grocery_list, kroger_store, store_cache,
           session_sale_items, rotator_recipes, session_state, objects, ret >>

prefsVars == << disliked_ingredients, loved_ingredients, never_suggest_again,
                family_favorites >>

historyVars == << last_4_weeks, today, logged >>

sessionVars ==
  << calendar_events, meal_plan, grocery_list, kroger_store, store_cache,
     session_sale_items, rotator_recipes >>

serverVars == << session_state, objects >>

(***************************************************************************)
(* The session state at its start                                          *)
(***************************************************************************)
\* strftime("%A") of day number d; day 0 is a Monday
DayNames ==
  << "Monday", "Tuesday", "Wednesday", "Thursday", "Friday", "Saturday", "Sunday" >>
day_name_of(d) == DayNames[(d % 7) + 1]

\* the entry of one day of a meal plan built on the given day
new_day(date) ==
  [ date |-> date,
    day_name |-> day_name_of(date),
    is_weekend |-> day_name_of(date) \in {"Saturday", "Sunday"},
    breakfast |-> "",
    lunch |-> "",
    dinner |-> "",
    late_night |-> FALSE,
    prep_needed |-> FALSE ]

\* st.session_state.meal_plan as first built: day_0 .. day_6 from `now`
new_meal_plan(now) == [i \in 0..6 |-> new_day(now + i)]

\* the store find_kroger_store returns for a ZIP code it knows
store_of(zip_code) == [locationId |-> zip_code, name |-> "Kroger"]
ZIP_CODE == "home"

\* Python's None where a store is expected; `if store:` is store # None
None == [locationId |-> "None", name |-> "None"]

\* st.cache_data of find_kroger_store: the cached result of each ZIP code
\* looked up within the last hour, as a set of records [zip_code, result]
no_cache == {}
is_cached(cache, zip_code) == \E e \in cache : e.zip_code = zip_code
cached_result(cache, zip_code) ==
  (CHOOSE e \in cache : e.zip_code = zip_code).result
cache_put(cache, zip_code, result) ==
  {e \in cache : e.zip_code # zip_code}
    \cup {[zip_code |-> zip_code, result |-> result]}

\* the sessions of the server process before any browser has connected
Sessions == {1, 2}
ServerStart ==
  /\ session_state = [s \in Sessions |-> [family_prefs |-> 0, rotator_prefs |-> 0]]
  /\ objects = << >>

\* the session objects other than the preference manager, as first created
\* on day 0 with the store of ZIP_CODE found
SessionStart ==
  /\ calendar_events = << >>
  /\ meal_plan = new_meal_plan(0)
  /\ grocery_list = << >>
  /\ kroger_store = store_of(ZIP_CODE)
  /\ store_cache = cache_put(no_cache, ZIP_CODE, store_of(ZIP_CODE))
  /\ session_sale_items = << >>
  /\ rotator_recipes = expanded_recipes
  /\ ServerStart

(***************************************************************************)
(* FamilyPreferencesManager                                                *)
(***************************************************************************)
\* ingredient.lower().strip()
Normalize(ingredient) == Strip(Lower(ingredient))

\* add_dislike: the two lists after the call
add_dislike(disliked, loved, ingredient) ==
  LET ing == Normalize(ingredient) IN
  IF ~InList(ing, disliked)
    THEN [ disliked_ingredients |-> Append(disliked, ing),
           loved_ingredients |->
             IF InList(ing, loved) THEN ListRemove(loved, ing) ELSE loved ]
    ELSE [ disliked_ingredients |-> disliked, loved_ingredients |-> loved ]

\* add_love that appends to the loves and forgets the dislikes
add_love_keeps_dislike(disliked, loved, ingredient) ==
  LET ing == Normalize(ingredient) IN
  IF ~InList(ing, loved)
    THEN [ loved_ingredients |-> Append(loved, ing), disliked_ingredients |-> disliked ]
    ELSE [ disliked_ingredients |-> disliked, loved_ingredients |-> loved ]

\* add_love: the two lists after the call
add_love(disliked, loved, ingredient) ==
  LET ing == Normalize(ingredient) IN
  IF ~InList(ing, loved)
    THEN [ loved_ingredients |-> Append(loved, ing),
           disliked_ingredients |->
             IF InList(ing, disliked) THEN ListRemove(disliked, ing) ELSE disliked ]
    ELSE [ disliked_ingredients |-> disliked, loved_ingredients |-> loved ]

\* ban_recipe: never_suggest_again after the call
ban_recipe(banned, recipe_title) ==
  IF ~InList(recipe_title, banned) THEN Append(banned, recipe_title) ELSE banned

\* add_favorite: family_favorites after the call
add_favorite(favorites, recipe_title) ==
  IF ~InList(recipe_title, favorites) THEN Append(favorites, recipe_title)
  ELSE favorites

\* recipe.get("all_ingredients", [])
GetAllIngredients(recipe) ==
  IF "all_ingredients" \in DOMAIN recipe THEN recipe.all_ingredients ELSE << >>

\* [ing.lower() for ing in ings]
LowerAll(ings) == [i \in 1..Len(ings) |-> Lower(ings[i])]

\* the lower-cased ingredient lists of the catalog's recipes, computed once
LoweredCatalog == [r \in AllRecipes |-> LowerAll(r.all_ingredients)]

\* [ing.lower() for ing in recipe.get("all_ingredients", [])]
LowerIngredients(recipe) ==
  IF recipe \in AllRecipes THEN LoweredCatalog[recipe]
  ELSE LowerAll(GetAllIngredients(recipe))

RECURSIVE InnerLoop(_, _, _)
\* for recipe_ing in recipe_ingredients[j..]: if disliked in recipe_ing: return True
InnerLoop(disliked, recipe_ingredients, j) ==
  IF j > Len(recipe_ingredients) THEN FALSE
  ELSE IF IsSubstring(disliked, recipe_ingredients[j]) THEN TRUE
  ELSE InnerLoop(disliked, recipe_ingredients, j + 1)

RECURSIVE OuterLoop(_, _, _)
\* for disliked in disliked_list[i..]: inner loop; falls through to return False
OuterLoop(disliked_list, recipe_ingredients, i) ==
  IF i > Len(disliked_list) THEN FALSE
  ELSE IF InnerLoop(disliked_list[i], recipe_ingredients, 1) THEN TRUE
  ELSE OuterLoop(disliked_list, recipe_ingredients, i + 1)

\* recipe_contains_dislikes that compares the ingredients as written
recipe_contains_dislikes_as_written(disliked_list, recipe) ==
  OuterLoop(disliked_list, GetAllIngredients(recipe), 1)

\* recipe_contains_dislikes
recipe_contains_dislikes(disliked_list, recipe) ==
  OuterLoop(disliked_list, LowerIngredients(recipe), 1)

\* recipe_is_banned
recipe_is_banned(banned, recipe) == InList(recipe.title, banned)

\* was_served_recently: meal_history["last_4_weeks"][-weeks_back*7:], -0 being 0
was_served_recently(history, recipe, weeks_back) ==
  LET recent_meals == SliceFrom(history, 0 - weeks_back * 7)
  IN  InList(recipe.title, [i \in 1..Len(recent_meals) |-> recent_meals[i].recipe])

\* log_meal that truncates to the first 28 entries
log_meal_keeps_oldest(history, recipe_title, date) ==
  LET appended == Append(history, [recipe |-> recipe_title, date |-> date])
  IN  SliceTo(appended, 28)

\* log_meal: last_4_weeks after the call
log_meal(history, recipe_title, date) ==
  LET appended == Append(history, [recipe |-> recipe_title, date |-> date])
  IN  IF Len(appended) > HistoryCap
        THEN SliceFrom(appended, 0 - HistoryCap)
        ELSE appended

(***************************************************************************)
(* The preference store from its construction: Spec                        *)
(***************************************************************************)
\* FamilyPreferencesManager.__init__
Init ==
  /\ disliked_ingredients = << >>
  /\ loved_ingredients = << >>
  /\ never_suggest_again = << >>
  /\ family_favorites = << >>
  /\ last_4_weeks = << >>
  /\ today = 0
  /\ logged = << >>
  /\ SessionStart
  /\ ret = [op |-> "__init__", args |-> << >>, result |-> "none"]

\* which branch a mutator of the two ingredient lists took
Branch(wasIn, wasInOther) ==
  IF wasIn THEN "present" ELSE IF wasInOther THEN "moved" ELSE "added"

\* "Add Dislike" button / "Add to Dislikes" button: add_dislike(ingredient)
AddDislike(ingredient) ==
  LET after == add_dislike(disliked_ingredients, loved_ingredients, ingredient) IN
  /\ disliked_ingredients' = after.disliked_ingredients
  /\ loved_ingredients' = after.loved_ingredients
  /\ ret' = [ op |-> "add_dislike", args |-> <<ingredient>>,
              result |-> Branch(InList(Normalize(ingredient), disliked_ingredients),
                                InList(Normalize(ingredient), loved_ingredients)) ]
  /\ UNCHANGED << sessionVars, serverVars, never_suggest_again, family_favorites, historyVars >>

\* "Add Love" button: add_love(ingredient)
AddLove(ingredient) ==
  LET after == add_love(disliked_ingredients, loved_ingredients, ingredient) IN
  /\ disliked_ingredients' = after.disliked_ingredients
  /\ loved_ingredients' = after.loved_ingredients
  /\ ret' = [ op |-> "add_love", args |-> <<ingredient>>,
              result |-> Branch(InList(Normalize(ingredient), loved_ingredients),
                                InList(Normalize(ingredient), disliked_ingredients)) ]
  /\ UNCHANGED << sessionVars, serverVars, never_suggest_again, family_favorites, historyVars >>

\* "Remove" button beside the i-th dislike
RemoveDislike(i) ==
  /\ i \in 1..Len(disliked_ingredients)
  /\ disliked_ingredients' = ListRemove(disliked_ingredients, disliked_ingredients[i])
  /\ ret' = [ op |-> "remove_dislike", args |-> <<disliked_ingredients[i]>>,
              result |-> "removed" ]
  /\ UNCHANGED << sessionVars, serverVars, loved_ingredients, never_suggest_again, family_favorites,
                  historyVars >>

\* a call of recipe_contains_dislikes(recipe)
RecipeContainsDislikes(recipe) ==
  /\ ret' = [ op |-> "recipe_contains_dislikes", args |-> <<recipe>>,
              result |-> recipe_contains_dislikes(disliked_ingredients, recipe) ]
  /\ UNCHANGED << sessionVars, serverVars, prefsVars, historyVars >>

Next ==
  \/ \E ingredient \in RawIngredients : AddDislike(ingredient)
  \/ \E ingredient \in RawIngredients : AddLove(ingredient)
  \/ \E i \in 1..Len(disliked_ingredients) : RemoveDislike(i)
  \/ \E recipe \in ProbeRecipes : RecipeContainsDislikes(recipe)

Spec == Init /\ [][Next]_vars

\* C1: no ingredient is both disliked and loved; after add_love(X) the
\* normalised X is loved and not disliked, after add_dislike(X) it is disliked
\* and not loved.
MutualExclusion ==
  /\ \A i \in 1..Len(disliked_ingredients) :
       ~InList(disliked_ingredients[i], loved_ingredients)
  /\ ret.op = "add_love" =>
       /\ InList(Strip(Lower(ret.args[1])), loved_ingredients)
       /\ ~InList(Strip(Lower(ret.args[1])), disliked_ingredients)
  /\ ret.op = "add_dislike" =>
       /\ InList(Strip(Lower(ret.args[1])), disliked_ingredients)
       /\ ~InList(Strip(Lower(ret.args[1])), loved_ingredients)

\* C1 witness: add_love of a string with capitals or blanks took a disliked
\* ingredient out of the dislikes while other dislikes remain
MutualExclusionWitness ==
  /\ ret.op = "add_love"
  /\ ret.result = "moved"
  /\ ret.args[1] # Strip(Lower(ret.args[1]))
  /\ Len(disliked_ingredients) > 0

\* C7: recipe_contains_dislikes(R) is true exactly when some lower-cased entry
\* of R's ingredient list contains some disliked ingredient as a substring.
ContainsDislikesIffSubstring ==
  ret.op = "recipe_contains_dislikes" =>
    LET R == ret.args[1]
        ings == IF "all_ingredients" \in DOMAIN R THEN R.all_ingredients ELSE << >>
    IN  ret.result =
          (\E k \in 1..Len(ings) : \E d \in Range(disliked_ingredients) :
             IsSubstring(d, Lower(ings[k])))

\* C7 witness: a recipe is reported to contain a dislike that matches only
\* because the recipe's ingredient is lower-cased, and it is not the first
\* dislike nor the first ingredient that matches
ContainsDislikesWitness ==
  /\ ret.op = "recipe_contains_dislikes"
  /\ ret.result = TRUE
  /\ Len(disliked_ingredients) > 1
  /\ LET ings == ret.args[1].all_ingredients
     IN  /\ ~\E k \in 1..Len(ings) : \E d \in Range(disliked_ingredients) :
              IsSubstring(d, ings[k])
         /\ ~IsSubstring(disliked_ingredients[1], Lower(ings[1]))

(***************************************************************************)
(* The meal history: SpecHistory                                           *)
(***************************************************************************)
\* the weekday dinners, in the order the household served them
ServedScript ==
  << "Baked Salmon with Roasted Vegetables", "Sheet Pan Chicken Fajitas",
     "Grilled Chicken with Quinoa", "Turkey Meatballs with Zucchini Noodles" >>

\* the lunch logged on the other occasions
FillerTitle == "Quinoa Power Bowl"

\* how many filler meals were logged after them before day 0, at most
MaxFiller == 25
\* how many meals a day were logged before day 0, at most
MaxMealsPerDay == 2
\* how many meals are logged from day 0 on, at most
MaxLogs == 1
\* the last day of the run
MaxDay == 1
\* the largest weeks_back passed to was_served_recently (its default is 3)
MaxWeeksBack == 3

\* the (recipe, date) pairs logged before day 0: a meals of ServedScript, then
\* b filler meals, m meals a day, the last of them on day -1
PastMeals(a, b, m) ==
  [ i \in 1..(a + b) |->
      [ recipe |-> IF i <= a THEN ServedScript[((i - 1) % Len(ServedScript)) + 1]
                   ELSE FillerTitle,
        date |-> 0 - ((a + b - i) \div m) - 1 ] ]

RECURSIVE Replay(_, _)
\* the history after log_meal was called with each of the first k pairs of meals
Replay(meals, k) ==
  IF k = 0 THEN << >>
  ELSE log_meal(Replay(meals, k - 1), meals[k].recipe, meals[k].date)

\* titles logged, and asked about, from day 0 on
HistoryTitles == {ServedScript[1], FillerTitle}

\* a recipe record of the catalog by its title
RecipeOf(title) == CHOOSE r \in AllRecipes : r.title = title

InitHistory ==
  /\ disliked_ingredients = << >>
  /\ loved_ingredients = << >>
  /\ never_suggest_again = << >>
  /\ family_favorites = << >>
  /\ \E a \in 0..Len(ServedScript), b \in 0..MaxFiller, m \in 1..MaxMealsPerDay :
       /\ logged = PastMeals(a, b, m)
       /\ last_4_weeks = Replay(PastMeals(a, b, m), a + b)
  /\ today = 0
  /\ SessionStart
  /\ ret = [op |-> "__init__", args |-> << >>, result |-> "none"]

\* "We Made This" button: log_meal(recipe['title'], today)
LogMeal(recipe_title) ==
  /\ Cardinality({i \in 1..Len(logged) : logged[i].date >= 0}) < MaxLogs
  /\ last_4_weeks' = log_meal(last_4_weeks, recipe_title, today)
  /\ logged' = Append(logged, [recipe |-> recipe_title, date |-> today])
  /\ ret' = [op |-> "log_meal", args |-> <<recipe_title, today>>, result |-> "none"]
  /\ UNCHANGED << sessionVars, serverVars, prefsVars, today >>

\* midnight passes: datetime.now() moves to the next day
AdvanceDay ==
  /\ today < MaxDay
  /\ today' = today + 1
  /\ ret' = [op |-> "advance_day", args |-> << >>, result |-> "none"]
  /\ UNCHANGED << sessionVars, serverVars, prefsVars, last_4_weeks, logged >>

\* a call of was_served_recently(recipe, weeks_back)
WasServedRecently(recipe, weeks_back) ==
  /\ ret' = [ op |-> "was_served_recently", args |-> <<recipe, weeks_back>>,
              result |-> was_served_recently(last_4_weeks, recipe, weeks_back) ]
  /\ UNCHANGED << sessionVars, serverVars, prefsVars, historyVars >>

NextHistory ==
  \/ \E t \in HistoryTitles : LogMeal(t)
  \/ AdvanceDay
  \/ \E t \in HistoryTitles, w \in 0..MaxWeeksBack : WasServedRecently(RecipeOf(t), w)

SpecHistory == InitHistory /\ [][NextHistory]_vars

\* the k most recent entries of the sequence s, as a set of positions
NewestPositions(s, k) == {i \in 1..Len(s) : i > Len(s) - k}

\* C2: the history holds at most 28 entries and is exactly the most recent
\* min(n, 28) of the n logged (title, date) pairs, in logging order.
HistoryIsNewest28 ==
  LET n == Len(logged)
      k == IF n < 28 THEN n ELSE 28
  IN  /\ Len(last_4_weeks) <= 28
      /\ Len(last_4_weeks) = k
      /\ \A i \in 1..k : last_4_weeks[i] = logged[n - k + i]

\* C2 witness: log_meal has just evicted an entry, and the evicted entries
\* include a title that is no longer in the history
HistoryEvictionWitness ==
  /\ ret.op = "log_meal"
  /\ Len(logged) > 28
  /\ Len(last_4_weeks) = 28
  /\ \E i \in 1..Len(logged) :
       \A j \in 1..Len(last_4_weeks) : last_4_weeks[j].recipe # logged[i].recipe

\* C6: was_served_recently(title, weeks_back) is true exactly when the title
\* is the recipe of one of the most recent weeks_back * 7 history entries; with
\* weeks_back = 0 it is false.
ServedRecentlyIffInWindow ==
  ret.op = "was_served_recently" =>
    ret.result =
      (\E i \in NewestPositions(last_4_weeks, ret.args[2] * 7) :
         last_4_weeks[i].recipe = ret.args[1].title)

(***************************************************************************)
(* SmartMealRotator.get_smart_recommendations                              *)
(***************************************************************************)
\* the preference manager the rotator reads (self.prefs)
Prefs ==
  [ disliked_ingredients |-> disliked_ingredients,
    never_suggest_again |-> never_suggest_again,
    family_favorites |-> family_favorites,
    last_4_weeks |-> last_4_weeks ]

\* the group chosen for (meal_type, day_type)
select_recipes(meal_type, day_type) ==
  IF day_type = "weekend"
    THEN IF meal_type = "breakfast" THEN expanded_recipes.weekend_breakfast
         ELSE IF meal_type = "dinner" THEN expanded_recipes.weekend_dinner
         ELSE expanded_recipes.weekday_lunch
    ELSE IF meal_type = "breakfast" THEN expanded_recipes.weekday_breakfast
         ELSE IF meal_type = "lunch" THEN expanded_recipes.weekday_lunch
         ELSE expanded_recipes.weekday_dinner

\* the three tests of one pass, with the pass's recency window
passes(P, recipe, weeks_back) ==
  /\ ~recipe_contains_dislikes(P.disliked_ingredients, recipe)
  /\ ~recipe_is_banned(P.never_suggest_again, recipe)
  /\ ~was_served_recently(P.last_4_weeks, recipe, weeks_back)

\* first pass: the recipes of the group that pass with weeks_back = 2
first_pass(P, recipes) ==
  SelectSeq(recipes, LAMBDA recipe : passes(P, recipe, 2))

RECURSIVE second_pass_any_age(_, _, _, _)
\* second pass that forgets the recency test
second_pass_any_age(P, recipes, filtered, i) ==
  IF i > Len(recipes) THEN filtered
  ELSE second_pass_any_age(P, recipes,
         IF /\ ~recipe_contains_dislikes(P.disliked_ingredients, recipes[i])
            /\ ~recipe_is_banned(P.never_suggest_again, recipes[i])
            /\ ~InList(recipes[i], filtered)
           THEN Append(filtered, recipes[i])
           ELSE filtered,
         i + 1)

RECURSIVE second_pass_again(_, _, _, _)
\* second pass that appends what is already collected once more, until the
\* list is as long as the group
second_pass_again(P, recipes, filtered, i) ==
  IF i > Len(recipes) \/ Len(filtered) >= Len(recipes) THEN filtered
  ELSE second_pass_again(P, recipes,
         IF passes(P, recipes[i], 1) THEN Append(filtered, recipes[i])
                                     ELSE filtered,
         i + 1)

RECURSIVE second_pass(_, _, _, _)
\* second pass over recipes[i..]: append what passes with weeks_back = 1 and is
\* not yet collected
second_pass(P, recipes, filtered, i) ==
  IF i > Len(recipes) THEN filtered
  ELSE second_pass(P, recipes,
         IF passes(P, recipes[i], 1) /\ ~InList(recipes[i], filtered)
           THEN Append(filtered, recipes[i])
           ELSE filtered,
         i + 1)

\* filtered_recipes before the split into favorites and the rest
filtered_recipes(P, recipes, count) ==
  LET first == first_pass(P, recipes)
  IN  IF Len(first) < count THEN second_pass(P, recipes, first, 1) ELSE first

\* [r for r in filtered_recipes if r["title"] in family_favorites]
favorites_of(P, filtered) ==
  SelectSeq(filtered, LAMBDA r : InList(r.title, P.family_favorites))

\* [r for r in filtered_recipes if r["title"] not in family_favorites]
non_favorites_of(P, filtered) ==
  SelectSeq(filtered, LAMBDA r : ~InList(r.title, P.family_favorites))

\* the longest group of the catalog
LongestGroup ==
  CHOOSE n \in {Len(expanded_recipes[g]) : g \in DOMAIN expanded_recipes} :
    \A g \in DOMAIN expanded_recipes : Len(expanded_recipes[g]) <= n

\* the permutations of 1..n for every list length that occurs, computed once
ShuffleOrders ==
  [ n \in 0..LongestGroup |->
      {p \in [1..n -> 1..n] : \A i, j \in 1..n : p[i] = p[j] => i = j} ]

\* every order random.shuffle can leave a list in
Shuffles(lst) ==
  {[i \in 1..Len(lst) |-> lst[p[i]]] : p \in ShuffleOrders[Len(lst)]}

RECURSIVE fill_from(_, _, _, _)
\* for recipe in non_favorites[i..]: stop at count, append what is not in result
fill_from(result, non_favorites, count, i) ==
  IF i > Len(non_favorites) THEN result
  ELSE IF Len(result) >= count THEN result
  ELSE fill_from(IF ~InList(non_favorites[i], result)
                   THEN Append(result, non_favorites[i])
                   ELSE result,
                 non_favorites, count, i + 1)

\* build_result without the final result[:count]
build_result_untruncated(favorites, non_favorites, count) ==
  LET start == SliceTo(favorites, Max(1, count \div 3))
  IN  fill_from(start, non_favorites, count, 1)

\* the result with every favorite ahead of the rest
build_result_all_favorites(favorites, non_favorites, count) ==
  SliceTo(fill_from(favorites, non_favorites, count, 1), count)

\* the result built from the two shuffled lists
build_result(favorites, non_favorites, count) ==
  LET start == SliceTo(favorites, Max(1, count \div 3))
  IN  SliceTo(fill_from(start, non_favorites, count, 1), count)

\* get_smart_recommendations: every list it can return
get_smart_recommendations(P, meal_type, day_type, count) ==
  LET recipes == select_recipes(meal_type, day_type)
      filtered == filtered_recipes(P, recipes, count)
  IN  { build_result(favorites, non_favorites, count) :
          favorites \in Shuffles(favorites_of(P, filtered)),
          non_favorites \in Shuffles(non_favorites_of(P, filtered)) }

(***************************************************************************)
(* The recipe selector on a household's preferences: SpecRecommend         *)
(***************************************************************************)
\* the largest count asked of get_smart_recommendations
MaxCount == 3

\* numbers of filler meals logged after the meals of ServedScript
FillerChoices == {0, 5, 7, 14}

\* the ingredients the household disliked, as typed, in order
DislikeScript == << " Garlic" >>
\* the recipes the household banned, in order
BanScript == << "Grilled Chicken with Quinoa" >>
\* the recipes the household marked as favorites, in order
FavoriteScript ==
  << "Baked Salmon with Roasted Vegetables", "Sheet Pan Chicken Fajitas",
     "Shrimp and Grits" >>

MealTypes == {"breakfast", "lunch", "dinner"}
DayTypes == {"weekday", "weekend"}

RECURSIVE ReplayDislikes(_)
\* the two ingredient lists after add_dislike of the first k entries of DislikeScript
ReplayDislikes(k) ==
  IF k = 0 THEN [disliked_ingredients |-> << >>, loved_ingredients |-> << >>]
  ELSE LET before == ReplayDislikes(k - 1)
       IN  add_dislike(before.disliked_ingredients, before.loved_ingredients,
                       DislikeScript[k])

RECURSIVE ReplayBans(_)
\* never_suggest_again after ban_recipe of the first k entries of BanScript
ReplayBans(k) ==
  IF k = 0 THEN << >> ELSE ban_recipe(ReplayBans(k - 1), BanScript[k])

RECURSIVE ReplayFavorites(_)
\* family_favorites after add_favorite of the first k entries of FavoriteScript
ReplayFavorites(k) ==
  IF k = 0 THEN << >> ELSE add_favorite(ReplayFavorites(k - 1), FavoriteScript[k])

\* a household that has used the preference buttons and logged meals before day 0
InitRecommend ==
  /\ \E d \in 0..Len(DislikeScript) :
       /\ disliked_ingredients = ReplayDislikes(d).disliked_ingredients
       /\ loved_ingredients = ReplayDislikes(d).loved_ingredients
  /\ \E k \in 0..Len(BanScript) : never_suggest_again = ReplayBans(k)
  /\ \E f \in 0..Len(FavoriteScript) : family_favorites = ReplayFavorites(f)
  /\ \E a \in 0..Len(ServedScript), b \in FillerChoices, m \in 1..MaxMealsPerDay :
       /\ logged = PastMeals(a, b, m)
       /\ last_4_weeks = Replay(PastMeals(a, b, m), a + b)
  /\ today = 0
  /\ SessionStart
  /\ ret = [op |-> "__init__", args |-> << >>, result |-> "none"]

\* "Get Smart Recommendations" without sale items, "Smart Fill Week":
\* get_smart_recommendations(meal_type, day_type, count), the first call made on
\* the household's state
GetSmartRecommendations(meal_type, day_type, count) ==
  /\ ret.op = "__init__"
  /\ \E result \in get_smart_recommendations(Prefs, meal_type, day_type, count) :
       ret' = [ op |-> "get_smart_recommendations",
                args |-> <<meal_type, day_type, count>>,
                result |-> result ]
  /\ UNCHANGED << sessionVars, serverVars, prefsVars, historyVars >>

NextRecommend ==
  \E meal_type \in MealTypes, day_type \in DayTypes, count \in 0..MaxCount :
    GetSmartRecommendations(meal_type, day_type, count)

SpecRecommend == InitRecommend /\ [][NextRecommend]_vars

\* C3: get_smart_recommendations returns at most count recipes.
AtMostCount ==
  ret.op = "get_smart_recommendations" => Len(ret.result) <= ret.args[3]

\* the recipes of the group the last call selected, and its count
CalledGroup == select_recipes(ret.args[1], ret.args[2])
CalledCount == ret.args[3]

\* C3 witness: a call with count 0 on a group holding an eligible favorite, and
\* a call that had to leave eligible recipes out
AtMostCountWitness ==
  /\ ret.op = "get_smart_recommendations"
  /\ \/ /\ CalledCount = 0
        /\ \E i \in 1..Len(CalledGroup) :
             /\ InList(CalledGroup[i].title, family_favorites)
             /\ passes(Prefs, CalledGroup[i], 2)
     \/ /\ CalledCount > 0
        /\ Len(ret.result) = CalledCount
        /\ Len(first_pass(Prefs, CalledGroup)) > CalledCount

\* a meal with this title was logged on one of the last `days` days
ServedWithinDays(title, days) ==
  \E i \in 1..Len(logged) :
    logged[i].recipe = title /\ today - logged[i].date <= days

\* C4: when at least count recipes of the group have no disliked ingredient,
\* are not banned and were not served in the last 14 days, the result holds no
\* banned recipe and no recipe logged as served within the last 14 days.
NoBannedNoRecentWhenEnough ==
  ret.op = "get_smart_recommendations" =>
    LET compliant ==
          { i \in 1..Len(CalledGroup) :
              /\ ~recipe_contains_dislikes(disliked_ingredients, CalledGroup[i])
              /\ ~InList(CalledGroup[i].title, never_suggest_again)
              /\ ~ServedWithinDays(CalledGroup[i].title, 14) }
    IN  Cardinality(compliant) >= CalledCount =>
          \A k \in 1..Len(ret.result) :
            /\ ~InList(ret.result[k].title, never_suggest_again)
            /\ ~ServedWithinDays(ret.result[k].title, 14)

\* C5: the result holds exactly count recipes when the filtered pool holds at
\* least count, and the whole pool when it holds fewer, whatever the split of
\* the pool into favorites and the rest.
ExactlyCountFromPool ==
  ret.op = "get_smart_recommendations" =>
    LET pool == filtered_recipes(Prefs, CalledGroup, CalledCount)
    IN  IF Len(pool) >= CalledCount
          THEN Len(ret.result) = CalledCount
          ELSE /\ Len(ret.result) = Len(pool)
               /\ Range(ret.result) = Range(pool)

(***************************************************************************)
(* extract_sale_items and SaleBasedRecommendationEngine                    *)
(***************************************************************************)
\* round(n / d) to the nearest integer, ties to the even one (Python's round)
RoundDiv(n, d) ==
  LET q == n \div d
      r == n % d
  IN  IF 2 * r < d THEN q
      ELSE IF 2 * r > d THEN q + 1
      ELSE IF q % 2 = 0 THEN q ELSE q + 1

\* the record extract_sale_items appends for a product with promo < regular;
\* prices and savings in cents, discount_percentage in tenths of a percent
sale_item(name, regular, promo, category) ==
  [ name |-> name,
    regular_price |-> regular,
    sale_price |-> promo,
    savings |-> regular - promo,
    category |-> category,
    discount_percentage |-> RoundDiv((regular - promo) * 1000, regular) ]

\* the products on promotion at the store, in the order extract_sale_items
\* finds them
StoreSaleItems ==
  << sale_item("Chicken Breast", 600, 400, "Chicken"),
     sale_item("Kroger Chicken Thighs", 500, 400, "Chicken"),
     sale_item("Lean Ground Turkey", 500, 350, "Ground Turkey"),
     sale_item("Sweet Potatoes", 250, 150, "Sweet Potato"),
     sale_item("Fresh Broccoli Crowns", 300, 150, "Broccoli"),
     sale_item("Tri-Color Quinoa", 400, 250, "Broccoli") >>

\* the largest number of sale items passed to the engine
MaxSaleItems == 2
\* the largest count asked of get_sale_based_recommendations
MaxSaleCount == 2

\* the items of StoreSaleItems at the positions in S, in their order
RECURSIVE PickItems(_, _)
PickItems(S, i) ==
  IF i > Len(StoreSaleItems) THEN << >>
  ELSE (IF i \in S THEN <<StoreSaleItems[i]>> ELSE << >>) \o PickItems(S, i + 1)

\* the sale-item lists passed to the engine
SaleItemLists ==
  { PickItems(S, 1) : S \in { T \in SUBSET (1..Len(StoreSaleItems)) :
                                Cardinality(T) <= MaxSaleItems } }

\* any(kw in name for kw in keywords)
AnyKeywordIn(keywords, name) == \E i \in 1..Len(keywords) : IsSubstring(keywords[i], name)

ProteinKeywords ==
  << "chicken", "turkey", "salmon", "ground turkey", "beef", "pork", "fish" >>
VegetableKeywords ==
  << "broccoli", "spinach", "bell pepper", "sweet potato", "asparagus", "green beans" >>
PantryKeywords == << "rice", "quinoa", "pasta", "beans", "cheese" >>

\* _extract_protein_type
extract_protein_type(item_name) ==
  IF IsSubstring("chicken breast", item_name) \/ IsSubstring("chicken", item_name)
    THEN "chicken breast"
  ELSE IF IsSubstring("ground turkey", item_name) THEN "ground turkey"
  ELSE IF IsSubstring("salmon", item_name) THEN "salmon"
  ELSE IF IsSubstring("turkey", item_name) THEN "turkey"
  ELSE IF IsSubstring("beef", item_name) THEN "ground beef"
  ELSE IF IsSubstring("pork", item_name) THEN "pork"
  ELSE "protein"

\* veg_map of _extract_vegetable_type, in insertion order
VegMap ==
  << <<"broccoli", "broccoli">>, <<"spinach", "spinach">>,
     <<"bell pepper", "bell pepper">>, <<"sweet potato", "sweet potato">>,
     <<"asparagus", "asparagus">>, <<"green beans", "green beans">>,
     <<"carrots", "carrots">>, <<"onion", "onion">> >>

RECURSIVE veg_lookup(_, _)
\* for veg, standard_name in veg_map.items()[i..]: first key found in the name
veg_lookup(item_name, i) ==
  IF i > Len(VegMap) THEN "vegetables"
  ELSE IF IsSubstring(VegMap[i][1], item_name) THEN VegMap[i][2]
  ELSE veg_lookup(item_name, i + 1)

\* _extract_vegetable_type
extract_vegetable_type(item_name) == veg_lookup(item_name, 1)

\* _extract_pantry_type
extract_pantry_type(item_name) ==
  IF IsSubstring("rice", item_name) THEN "rice"
  ELSE IF IsSubstring("quinoa", item_name) THEN "quinoa"
  ELSE IF IsSubstring("cheese", item_name) THEN "cheese"
  ELSE IF IsSubstring("pasta", item_name) THEN "pasta"
  ELSE IF IsSubstring("beans", item_name) THEN "beans"
  ELSE "pantry item"

\* a classification that tests the pantry keywords first and the protein
\* keywords last
bucket_of_pantry_first(item) ==
  LET name == Lower(item.name) IN
  IF AnyKeywordIn(PantryKeywords, name) THEN "pantry"
  ELSE IF AnyKeywordIn(VegetableKeywords, name) THEN "vegetables"
  ELSE IF AnyKeywordIn(ProteinKeywords, name) THEN "proteins"
  ELSE "none"

\* the bucket of one sale item: "proteins", "vegetables", "pantry" or "none"
bucket_of(item) ==
  LET name == Lower(item.name) IN
  IF AnyKeywordIn(ProteinKeywords, name) THEN "proteins"
  ELSE IF AnyKeywordIn(VegetableKeywords, name) THEN "vegetables"
  ELSE IF AnyKeywordIn(PantryKeywords, name) THEN "pantry"
  ELSE "none"

\* the entry appended to the item's bucket
match_entry(item) ==
  LET name == Lower(item.name)
      bucket == bucket_of(item)
  IN  [ ingredient |-> IF bucket = "proteins" THEN extract_protein_type(name)
                       ELSE IF bucket = "vegetables" THEN extract_vegetable_type(name)
                       ELSE extract_pantry_type(name),
        sale_info |-> item ]

RECURSIVE bucket_entries(_, _, _)
\* the entries of one bucket, from sale_items[i..], in order
bucket_entries(sale_items, bucket, i) ==
  IF i > Len(sale_items) THEN << >>
  ELSE (IF bucket_of(sale_items[i]) = bucket
          THEN <<match_entry(sale_items[i])>> ELSE << >>)
       \o bucket_entries(sale_items, bucket, i + 1)

\* get_sale_ingredient_matches
get_sale_ingredient_matches(sale_items) ==
  [ proteins |-> bucket_entries(sale_items, "proteins", 1),
    vegetables |-> bucket_entries(sale_items, "vegetables", 1),
    pantry |-> bucket_entries(sale_items, "pantry", 1) ]

\* any(match["ingredient"].lower() in ing for ing in recipe_ingredients)
MatchesRecipe(match, recipe_ingredients) ==
  LET wanted == Lower(match.ingredient)
  IN  \E k \in 1..Len(recipe_ingredients) : IsSubstring(wanted, recipe_ingredients[k])

RECURSIVE match_loop(_, _, _, _, _, _)
\* for match in matches[i..]: on a hit add the points and append the benefit;
\* acc is [score, sale_benefits]
match_loop(matches, type, points, recipe_ingredients, acc, i) ==
  IF i > Len(matches) THEN acc
  ELSE match_loop(matches, type, points, recipe_ingredients,
         IF MatchesRecipe(matches[i], recipe_ingredients)
           THEN [ score |-> acc.score + points,
                  sale_benefits |->
                    Append(acc.sale_benefits,
                           [ type |-> type,
                             ingredient |-> matches[i].ingredient,
                             savings |-> matches[i].sale_info.savings,
                             discount |-> matches[i].sale_info.discount_percentage ]) ]
           ELSE acc,
         i + 1)

RECURSIVE SumSavings(_)
\* sum(benefit["savings"] for benefit in sale_benefits)
SumSavings(sale_benefits) ==
  IF Len(sale_benefits) = 0 THEN 0
  ELSE sale_benefits[1].savings + SumSavings(Tail(sale_benefits))

\* the annotated copy of one candidate recipe
score_recipe_copy(recipe, sale_matches) ==
  LET recipe_ingredients == LowerIngredients(recipe)
      p == match_loop(sale_matches.proteins, "protein", 10, recipe_ingredients,
                      [score |-> 0, sale_benefits |-> << >>], 1)
      v == match_loop(sale_matches.vegetables, "vegetable", 5, recipe_ingredients, p, 1)
      t == match_loop(sale_matches.pantry, "pantry", 3, recipe_ingredients, v, 1)
  IN  recipe @@ [ sale_score |-> t.score,
                  sale_benefits |-> t.sale_benefits,
                  total_sale_savings |-> SumSavings(t.sale_benefits) ]

\* a sort key that looks at the sale score alone
KeyLess_score_only(a, b) == a.sale_score < b.sale_score

\* the sort key (sale_score, total_sale_savings): a's key is below b's
KeyLess(a, b) ==
  \/ a.sale_score < b.sale_score
  \/ a.sale_score = b.sale_score /\ a.total_sale_savings < b.total_sale_savings

\* x placed into a list sorted in descending key order, behind the elements
\* whose key is not below its own
InsertDescending(sorted, x) ==
  LET before == {i \in 1..Len(sorted) : ~KeyLess(sorted[i], x)}
      k == Cardinality(before)
  IN  SubSeq(sorted, 1, k) \o <<x>> \o SubSeq(sorted, k + 1, Len(sorted))

RECURSIVE sort_descending(_, _)
\* scored_recipes.sort(key=..., reverse=True) of the first n elements: stable
sort_descending(scored, n) ==
  IF n = 0 THEN << >>
  ELSE InsertDescending(sort_descending(scored, n - 1), scored[n])

\* scored_recipes before the sort: the annotated copies, in the pool's order
score_candidates(all_recipes, sale_matches) ==
  [i \in 1..Len(all_recipes) |-> score_recipe_copy(all_recipes[i], sale_matches)]

\* the list returned for the scored candidates
rank_candidates(scored_recipes, count) ==
  SliceTo(sort_descending(scored_recipes, Len(scored_recipes)), count)

\* get_sale_based_recommendations: every (scored candidates, returned list) pair
get_sale_based_recommendations(P, sale_items, meal_type, day_type, count) ==
  LET sale_matches == get_sale_ingredient_matches(sale_items)
  IN  { LET scored_recipes == score_candidates(all_recipes, sale_matches)
        IN  [ scored_recipes |-> scored_recipes,
              result |-> rank_candidates(scored_recipes, count) ] :
        all_recipes \in get_smart_recommendations(P, meal_type, day_type, count * 2) }

(***************************************************************************)
(* The sale-aware recommender: SpecSale                                    *)
(***************************************************************************)
\* a household with some dislikes, bans and recently served dinners
InitSale ==
  /\ \E d \in 0..Len(DislikeScript) :
       /\ disliked_ingredients = ReplayDislikes(d).disliked_ingredients
       /\ loved_ingredients = ReplayDislikes(d).loved_ingredients
  /\ \E k \in 0..Len(BanScript) : never_suggest_again = ReplayBans(k)
  /\ family_favorites = << >>
  /\ \E a \in {0, Len(ServedScript)} :
       /\ logged = PastMeals(a, 0, 1)
       /\ last_4_weeks = Replay(PastMeals(a, 0, 1), a)
  /\ today = 0
  /\ SessionStart
  /\ ret = [op |-> "__init__", args |-> << >>, result |-> "none"]

\* "Get Smart Recommendations" with sale items, "Get Recipes", "Smart Fill Week":
\* get_sale_based_recommendations(sale_items, meal_type, day_type, count), the
\* first call made on the household's state
GetSaleBasedRecommendations(sale_items, meal_type, day_type, count) ==
  /\ ret.op = "__init__"
  /\ \E out \in get_sale_based_recommendations(Prefs, sale_items, meal_type,
                                               day_type, count) :
       ret' = [ op |-> "get_sale_based_recommendations",
                args |-> <<meal_type, day_type, count, sale_items>>,
                scored_recipes |-> out.scored_recipes,
                result |-> out.result ]
  /\ UNCHANGED << sessionVars, serverVars, prefsVars, historyVars >>

NextSale ==
  \/ \E sale_items \in SaleItemLists, meal_type \in MealTypes,
        day_type \in DayTypes, count \in 0..MaxSaleCount :
       GetSaleBasedRecommendations(sale_items, meal_type, day_type, count)
  \/ \E meal_type \in MealTypes, day_type \in DayTypes, count \in 0..MaxCount :
       GetSmartRecommendations(meal_type, day_type, count)

SpecSale == InitSale /\ [][NextSale]_vars

\* C8: when every recipe of the selected group has a disliked ingredient, is
\* banned or is among the 7 most recent history entries (so neither pass keeps
\* it), both recommenders return the empty list.
EmptyWhenAllExcluded ==
  ret.op \in {"get_smart_recommendations", "get_sale_based_recommendations"} =>
    ( (\A i \in 1..Len(CalledGroup) :
         \/ \E k \in 1..Len(CalledGroup[i].all_ingredients) :
              \E d \in Range(disliked_ingredients) :
                IsSubstring(d, Lower(CalledGroup[i].all_ingredients[k]))
         \/ CalledGroup[i].title \in Range(never_suggest_again)
         \/ \E j \in NewestPositions(last_4_weeks, 7) :
              last_4_weeks[j].recipe = CalledGroup[i].title)
      => ret.result = << >> )

\* C8 witness: the sale-aware recommender was asked for recipes of a group
\* whose recipes are all excluded, some by a dislike, some by a ban or by
\* recency, with sale items that match recipes of the group
EmptyWhenAllExcludedWitness ==
  /\ ret.op = "get_sale_based_recommendations"
  /\ CalledCount > 0
  /\ Len(ret.args[4]) > 0
  /\ ret.result = << >>
  /\ \A i \in 1..Len(CalledGroup) : ~passes(Prefs, CalledGroup[i], 1)
  /\ \E i \in 1..Len(CalledGroup) :
       recipe_contains_dislikes(disliked_ingredients, CalledGroup[i])
  /\ \E i \in 1..Len(CalledGroup) :
       ~recipe_contains_dislikes(disliked_ingredients, CalledGroup[i])

\* the count and the sale items of the last sale-aware call
SaleCount == ret.args[3]
SaleItems == ret.args[4]

\* the benefits of an annotated recipe that have the given type
BenefitsOfType(r, type) ==
  {k \in 1..Len(r.sale_benefits) : r.sale_benefits[k].type = type}

\* C9: the sale-aware result is the first count elements of the candidate
\* pool in descending order of (sale score, total savings): higher score
\* first, equal scores by higher savings, nothing left out outranks a returned
\* recipe, and a recipe matching an on-sale protein precedes one that matches
\* only one vegetable or nothing.
SaleResultSorted ==
  ret.op = "get_sale_based_recommendations" =>
    LET res == ret.result
        pool == ret.scored_recipes
        left_out == {i \in 1..Len(pool) :
                       \A k \in 1..Len(res) : res[k].title # pool[i].title}
    IN  /\ Len(res) = (IF SaleCount < Len(pool) THEN SaleCount ELSE Len(pool))
        /\ \A k \in 1..Len(res) : \E i \in 1..Len(pool) : pool[i].title = res[k].title
        /\ \A k, l \in 1..Len(res) : k # l => res[k].title # res[l].title
        /\ \A k, l \in 1..Len(res) :
             k < l =>
               \/ res[k].sale_score > res[l].sale_score
               \/ /\ res[k].sale_score = res[l].sale_score
                  /\ res[k].total_sale_savings >= res[l].total_sale_savings
        /\ \A i \in left_out : \A k \in 1..Len(res) :
             LET out == pool[i]
             IN  \/ out.sale_score < res[k].sale_score
                 \/ /\ out.sale_score = res[k].sale_score
                    /\ out.total_sale_savings <= res[k].total_sale_savings
        /\ \A k, l \in 1..Len(res) :
             ( /\ BenefitsOfType(res[k], "protein") # {}
               /\ BenefitsOfType(res[l], "protein") = {}
               /\ BenefitsOfType(res[l], "pantry") = {}
               /\ Cardinality(BenefitsOfType(res[l], "vegetable")) <= 1 )
             => k < l

\* C9 witness: the pool was truncated, a recipe matching the on-sale chicken
\* breast (savings 2.00) is ranked above one that matches only a vegetable, and
\* the order of the pool was changed by the sort
SaleResultSortedWitness ==
  /\ ret.op = "get_sale_based_recommendations"
  /\ Len(ret.result) < Len(ret.scored_recipes)
  /\ Len(ret.result) >= 2
  /\ \E k \in BenefitsOfType(ret.result[1], "protein") :
       /\ ret.result[1].sale_benefits[k].ingredient = "chicken breast"
       /\ ret.result[1].sale_benefits[k].savings = 200
  /\ BenefitsOfType(ret.result[2], "protein") = {}
  /\ BenefitsOfType(ret.result[2], "vegetable") # {}
  /\ ret.scored_recipes[1].title # ret.result[1].title

\* C10: the sale score is 10 for each distinct matched protein name, plus 5
\* per matched vegetable, plus 3 per matched pantry item; sale items that
\* normalize to the same protein name count once.
SaleScoreCountsDistinctProteins ==
  ret.op = "get_sale_based_recommendations" =>
    LET matches == get_sale_ingredient_matches(SaleItems)
        Hit(m, r) ==
          \E k \in 1..Len(r.all_ingredients) :
            IsSubstring(m.ingredient, Lower(r.all_ingredients[k]))
    IN  \A i \in 1..Len(ret.result) :
          LET r == ret.result[i]
              proteins == { matches.proteins[k].ingredient :
                              k \in {j \in 1..Len(matches.proteins) :
                                       Hit(matches.proteins[j], r)} }
              vegetables == {j \in 1..Len(matches.vegetables) :
                               Hit(matches.vegetables[j], r)}
              pantry == {j \in 1..Len(matches.pantry) : Hit(matches.pantry[j], r)}
          IN  r.sale_score = 10 * Cardinality(proteins)
                             + 5 * Cardinality(vegetables)
                             + 3 * Cardinality(pantry)

(***************************************************************************)
(* PurchaseTimingAnalyzer                                                  *)
(***************************************************************************)
\* self.buy_thresholds, in tenths of a percent
buy_thresholds == [excellent |-> 250, good |-> 150, modest |-> 80]

\* get_recommendation with strict comparisons
get_recommendation_strict(item_name, discount_percentage) ==
  IF discount_percentage > buy_thresholds.excellent
    THEN [ action |-> "Buy Now & Stock Up",
           reason |-> <<"Excellent", discount_percentage>>,
           confidence |-> "High",
           timing |-> "Great deal - buy extra for meal prep" ]
  ELSE IF discount_percentage > buy_thresholds.good
    THEN [ action |-> "Buy for This Week",
           reason |-> <<"Good", discount_percentage>>,
           confidence |-> "Medium",
           timing |-> "Good price for immediate use" ]
  ELSE IF discount_percentage > buy_thresholds.modest
    THEN [ action |-> "Consider If Needed",
           reason |-> <<"Modest", discount_percentage>>,
           confidence |-> "Medium",
           timing |-> "Buy if you need it this week" ]
  ELSE [ action |-> "Wait for Better Deal",
         reason |-> <<"Small discount, better deals likely coming">>,
         confidence |-> "Low",
         timing |-> "Wait unless urgently needed" ]

\* get_recommendation(item_name, discount_percentage); the discount is in
\* tenths of a percent, the reason is its wording and the discount it quotes
get_recommendation(item_name, discount_percentage) ==
  IF discount_percentage >= buy_thresholds.excellent
    THEN [ action |-> "Buy Now & Stock Up",
           reason |-> <<"Excellent", discount_percentage>>,
           confidence |-> "High",
           timing |-> "Great deal - buy extra for meal prep" ]
  ELSE IF discount_percentage >= buy_thresholds.good
    THEN [ action |-> "Buy for This Week",
           reason |-> <<"Good", discount_percentage>>,
           confidence |-> "Medium",
           timing |-> "Good price for immediate use" ]
  ELSE IF discount_percentage >= buy_thresholds.modest
    THEN [ action |-> "Consider If Needed",
           reason |-> <<"Modest", discount_percentage>>,
           confidence |-> "Medium",
           timing |-> "Buy if you need it this week" ]
  ELSE [ action |-> "Wait for Better Deal",
         reason |-> <<"Small discount, better deals likely coming">>,
         confidence |-> "Low",
         timing |-> "Wait unless urgently needed" ]

\* _get_weekly_strategy with inclusive thresholds
get_weekly_strategy_inclusive(total_savings, high_value_count) ==
  IF total_savings >= 2000
    THEN "Great week for savings! Focus on items with 20%+ discounts."
  ELSE IF total_savings >= 1000
    THEN "Decent savings available. Consider stocking up on non-perishables."
  ELSE "Light sales week. Good time to use up what you have at home."

\* _get_weekly_strategy(total_savings, high_value_count); savings in cents
get_weekly_strategy(total_savings, high_value_count) ==
  IF total_savings > 2000
    THEN "Great week for savings! Focus on items with 20%+ discounts."
  ELSE IF total_savings > 1000
    THEN "Decent savings available. Consider stocking up on non-perishables."
  ELSE "Light sales week. Good time to use up what you have at home."

RECURSIVE SumField(_, _)
\* sum(item[field] for item in items)
SumField(items, field) ==
  IF Len(items) = 0 THEN 0
  ELSE items[1][field] + SumField(Tail(items), field)

\* the quotient n / d, kept exact as a fraction
Quotient(n, d) == [num |-> n, den |-> d]

\* analyze_weekly_savings(sale_items); average_discount is the exact quotient,
\* or the integer 0 (0/1) for the empty list
analyze_weekly_savings(sale_items) ==
  LET total_savings == SumField(sale_items, "savings")
      high_value_items ==
        SelectSeq(sale_items, LAMBDA item : item.discount_percentage >= 200)
  IN  [ total_possible_savings |-> total_savings,
        high_value_count |-> Len(high_value_items),
        average_discount |->
          IF Len(sale_items) > 0
            THEN Quotient(SumField(sale_items, "discount_percentage"), Len(sale_items))
            ELSE Quotient(0, 1),
        recommendation |-> get_weekly_strategy(total_savings, Len(high_value_items)) ]

(***************************************************************************)
(* The sales tab's functions on lists of sale items: SpecSalesTab          *)
(***************************************************************************)
MaxClassifyItems == 3
MaxSavingsItems == 3
MaxDiscount == 300

\* product descriptions with protein, vegetable and pantry keywords, alone
\* and together, and with none
ClassifyNames ==
  { "Chicken Broccoli Rice Bowl", "Broccoli Cheddar Cheese Soup", "Brown Rice",
    "Fresh Spinach", "Goldfish Crackers", "Paper Towels", "Turkey & Green Beans" }

ClassifyItems == { sale_item(name, 500, 400, "Chicken") : name \in ClassifyNames }

\* sale items whose savings add up to, just over and just under 10.00 and
\* 20.00, with discounts at, just over and just under 20%
SavingsItems ==
  { sale_item("Family Pack Chicken", 2000, 1000, "Chicken"),
    sale_item("Atlantic Salmon", 2500, 2000, "Salmon"),
    sale_item("Broccoli Florets", 1000, 999, "Broccoli"),
    sale_item("Whole Turkey", 5000, 4001, "Turkey"),
    sale_item("Sweet Potato Fries", 1000, 801, "Sweet Potato") }

\* the sequences over S of length at most n
SeqsUpTo(S, n) == UNION { [1..k -> S] : k \in 0..n }

\* a call of get_sale_ingredient_matches(sale_items)
GetSaleIngredientMatches(sale_items) ==
  /\ ret.op = "__init__"
  /\ ret' = [ op |-> "get_sale_ingredient_matches", args |-> <<sale_items>>,
              result |-> get_sale_ingredient_matches(sale_items) ]
  /\ UNCHANGED << sessionVars, serverVars, prefsVars, historyVars >>

\* the sales tab shows get_recommendation(item['name'], item['discount_percentage'])
GetRecommendation(item_name, discount_percentage) ==
  /\ ret.op = "__init__"
  /\ ret' = [ op |-> "get_recommendation",
              args |-> <<item_name, discount_percentage>>,
              result |-> get_recommendation(item_name, discount_percentage) ]
  /\ UNCHANGED << sessionVars, serverVars, prefsVars, historyVars >>

\* the sales tab shows analyze_weekly_savings(sale_items)
AnalyzeWeeklySavings(sale_items) ==
  /\ ret.op = "__init__"
  /\ ret' = [ op |-> "analyze_weekly_savings", args |-> <<sale_items>>,
              result |-> analyze_weekly_savings(sale_items) ]
  /\ UNCHANGED << sessionVars, serverVars, prefsVars, historyVars >>

NextSalesTab ==
  \/ \E sale_items \in SeqsUpTo(ClassifyItems, MaxClassifyItems) :
       GetSaleIngredientMatches(sale_items)
  \/ \E discount_percentage \in 0..MaxDiscount :
       GetRecommendation("Chicken Breast", discount_percentage)
  \/ \E sale_items \in SeqsUpTo(SavingsItems, MaxSavingsItems) :
       AnalyzeWeeklySavings(sale_items)

SpecSalesTab == Init /\ [][NextSalesTab]_vars

\* the name of the item contains one of the keywords, whatever its case
NameHas(item, keywords) ==
  \E i \in 1..Len(keywords) : IsSubstring(keywords[i], Lower(item.name))

\* how many entries of the bucket were made for the item
EntriesFor(bucket, item) ==
  Cardinality({k \in 1..Len(bucket) : bucket[k].sale_info = item})

\* how many times the item occurs in the list
Occurrences(items, item) ==
  Cardinality({k \in 1..Len(items) : items[k] = item})

\* C11: every sale item is in at most one bucket, chosen by the priority
\* proteins > vegetables > pantry: a name with a protein keyword is in
\* proteins only, one with a vegetable keyword and no protein keyword in
\* vegetables only, one with only a pantry keyword in pantry only, and one
\* with no keyword in no bucket; the buckets hold nothing else.
ClassifiedByPriority ==
  ret.op = "get_sale_ingredient_matches" =>
    LET items == ret.args[1]
        m == ret.result
    IN  /\ \A item \in Range(items) :
             LET n == Occurrences(items, item)
                 p == NameHas(item, ProteinKeywords)
                 v == NameHas(item, VegetableKeywords)
                 y == NameHas(item, PantryKeywords)
             IN  /\ EntriesFor(m.proteins, item) = (IF p THEN n ELSE 0)
                 /\ EntriesFor(m.vegetables, item) = (IF ~p /\ v THEN n ELSE 0)
                 /\ EntriesFor(m.pantry, item) = (IF ~p /\ ~v /\ y THEN n ELSE 0)
        /\ \A b \in {"proteins", "vegetables", "pantry"} :
             \A k \in 1..Len(m[b]) : m[b][k].sale_info \in Range(items)

\* C11 witness: a list was classified that holds an item with keywords of all
\* three kinds, one with a vegetable and a pantry keyword, and one with none
ClassifiedByPriorityWitness ==
  /\ ret.op = "get_sale_ingredient_matches"
  /\ \E item \in Range(ret.args[1]) :
       /\ NameHas(item, ProteinKeywords)
       /\ NameHas(item, VegetableKeywords)
       /\ NameHas(item, PantryKeywords)
       /\ EntriesFor(ret.result.proteins, item) = 1
  /\ \E item \in Range(ret.args[1]) :
       /\ ~NameHas(item, ProteinKeywords)
       /\ NameHas(item, VegetableKeywords)
       /\ NameHas(item, PantryKeywords)
       /\ EntriesFor(ret.result.vegetables, item) = 1
  /\ \E item \in Range(ret.args[1]) :
       /\ ~NameHas(item, ProteinKeywords)
       /\ ~NameHas(item, VegetableKeywords)
       /\ ~NameHas(item, PantryKeywords)

\* C12: the advice is the first band that matches, highest first, with
\* inclusive lower bounds: 25% and more buy now & stock up (high confidence),
\* 15% to under 25% buy for this week (medium), 8% to under 15% consider if
\* needed (medium), under 8% wait for a better deal (low).
RecommendationByBand ==
  ret.op = "get_recommendation" =>
    LET d == ret.args[2]
        r == ret.result
    IN  /\ d >= 250 =>
             r.action = "Buy Now & Stock Up" /\ r.confidence = "High"
        /\ (150 <= d /\ d < 250) =>
             r.action = "Buy for This Week" /\ r.confidence = "Medium"
        /\ (80 <= d /\ d < 150) =>
             r.action = "Consider If Needed" /\ r.confidence = "Medium"
        /\ d < 80 =>
             r.action = "Wait for Better Deal" /\ r.confidence = "Low"

\* C12 witness: the advice for a discount of exactly 25.0% was asked for and
\* is to buy now and stock up
RecommendationByBandWitness ==
  /\ ret.op = "get_recommendation"
  /\ ret.args[2] = 250
  /\ ret.result.action = "Buy Now & Stock Up"

\* C13: the summary holds the sum of the savings, the number of items with a
\* discount of 20% or more, the mean discount (0 for the empty list), and a
\* strategy chosen by strict thresholds on the total: over 20.00 great week,
\* over 10.00 decent savings, otherwise light week.
WeeklySavingsSummary ==
  ret.op = "analyze_weekly_savings" =>
    LET items == ret.args[1]
        r == ret.result
        total == SumField(items, "savings")
    IN  /\ r.total_possible_savings = total
        /\ r.high_value_count =
             Cardinality({k \in 1..Len(items) : items[k].discount_percentage >= 200})
        /\ r.average_discount.den > 0
        /\ IF Len(items) = 0
             THEN r.average_discount.num = 0
             ELSE r.average_discount.num * Len(items) =
                    SumField(items, "discount_percentage") * r.average_discount.den
        /\ total > 2000 =>
             r.recommendation =
               "Great week for savings! Focus on items with 20%+ discounts."
        /\ (total > 1000 /\ total <= 2000) =>
             r.recommendation =
               "Decent savings available. Consider stocking up on non-perishables."
        /\ total <= 1000 =>
             r.recommendation =
               "Light sales week. Good time to use up what you have at home."

\* C13 witness: a non-empty list whose savings add up to exactly 20.00 was
\* summarised as a week of decent savings
WeeklySavingsSummaryWitness ==
  /\ ret.op = "analyze_weekly_savings"
  /\ Len(ret.args[1]) > 1
  /\ ret.result.total_possible_savings = 2000
  /\ ret.result.high_value_count > 0
  /\ ret.result.recommendation =
       "Decent savings available. Consider stocking up on non-perishables."

(***************************************************************************)
(* CalendarIntegrator                                                      *)
(***************************************************************************)
\* one hour of duration_hours; durations are kept in minutes
HOUR == 60

\* self.busy_day_threshold
busy_day_threshold == 6 * HOUR

\* add_mock_events(date_str, events)
add_mock_events(events_by_date, date_str, events) ==
  [d \in (DOMAIN events_by_date) \cup {date_str} |->
     IF d = date_str THEN events ELSE events_by_date[d]]

\* event.get("duration_hours", 1)
duration_of(event) ==
  IF "duration_hours" \in DOMAIN event THEN event.duration_hours ELSE 1 * HOUR

RECURSIVE total_busy_hours_of(_)
\* the loop that adds up the durations of the events
total_busy_hours_of(events) ==
  IF Len(events) = 0 THEN 0
  ELSE duration_of(events[1]) + total_busy_hours_of(Tail(events))

\* _get_meal_recommendation(is_busy, busy_hours)
get_meal_recommendation(is_busy, busy_hours) ==
  IF busy_hours >= 8 * HOUR
    THEN [ meal_style |-> "late_night_ready",
           prep_style |-> "slow_cooker_or_instant_pot",
           message |-> "Very busy day - use slow cooker or Instant Pot",
           prep_time |-> "Set up in morning (10 min max)" ]
  ELSE IF busy_hours >= 6 * HOUR
    THEN [ meal_style |-> "quick_and_easy",
           prep_style |-> "minimal_prep",
           message |-> "Busy day - keep meals simple and quick",
           prep_time |-> "20 minutes or less" ]
  ELSE IF busy_hours >= 4 * HOUR
    THEN [ meal_style |-> "normal_with_prep",
           prep_style |-> "some_prep_ok",
           message |-> "Moderate schedule - normal meals with some prep OK",
           prep_time |-> "30-45 minutes OK" ]
  ELSE [ meal_style |-> "any_style",
         prep_style |-> "full_cooking_ok",
         message |-> "Light schedule - perfect day for cooking projects!",
         prep_time |-> "Any cooking time fine" ]

\* calendar_events.get(date_str, [])
events_on(events_by_date, date_str) ==
  IF date_str \in DOMAIN events_by_date THEN events_by_date[date_str] ELSE << >>

\* is_busy_day without the rule on the number of events
is_busy_day_hours_only(events_by_date, date_str) ==
  LET events == events_on(events_by_date, date_str)
      total_busy_hours == total_busy_hours_of(events)
      is_busy == total_busy_hours >= busy_day_threshold
  IN  [ is_busy |-> is_busy,
        total_hours |-> total_busy_hours,
        event_count |-> Len(events),
        events |-> events,
        recommendation |-> get_meal_recommendation(is_busy, total_busy_hours) ]

\* is_busy_day(date_str)
is_busy_day(events_by_date, date_str) ==
  LET events == events_on(events_by_date, date_str)
      total_busy_hours == total_busy_hours_of(events)
      event_count == Len(events)
      is_busy == total_busy_hours >= busy_day_threshold \/ event_count >= 4
  IN  [ is_busy |-> is_busy,
        total_hours |-> total_busy_hours,
        event_count |-> event_count,
        events |-> events,
        recommendation |-> get_meal_recommendation(is_busy, total_busy_hours) ]

\* _generate_weekly_recommendations with every threshold one day higher
generate_weekly_recommendations_late(analysis) ==
  LET busy_day_count == Len(analysis.busy_days)
      prep ==
        IF busy_day_count >= 5
          THEN [ strategy |-> "Heavy prep recommended - prep 3-4 meals on Sunday",
                 suggestions |-> << <<"Sunday: 2-3 hours of meal prep">>,
                                    <<"Focus on slow cooker and one-pot meals">> >> ]
        ELSE IF busy_day_count >= 3
          THEN [ strategy |-> "Moderate prep - focus on proteins and grains",
                 suggestions |-> << <<"Sunday: 1-2 hours protein and grain prep">> >> ]
        ELSE [ strategy |-> "Minimal prep needed - cook fresh most days",
               suggestions |-> << <<"Light prep - just wash and chop vegetables">> >> ]
  IN  [ meal_prep_strategy |-> prep.strategy,
        shopping_strategy |-> "",
        cooking_strategy |-> << >>,
        specific_suggestions |-> prep.suggestions ]

\* _generate_weekly_recommendations(analysis); a text that quotes a list of
\* day names is the pair of its wording and the list
generate_weekly_recommendations(analysis) ==
  LET busy_day_count == Len(analysis.busy_days)
      prep ==
        IF busy_day_count >= 4
          THEN [ strategy |-> "Heavy prep recommended - prep 3-4 meals on Sunday",
                 suggestions |-> << <<"Sunday: 2-3 hours of meal prep">>,
                                    <<"Focus on slow cooker and one-pot meals">> >> ]
        ELSE IF busy_day_count >= 2
          THEN [ strategy |-> "Moderate prep - focus on proteins and grains",
                 suggestions |-> << <<"Sunday: 1-2 hours protein and grain prep">> >> ]
        ELSE [ strategy |-> "Minimal prep needed - cook fresh most days",
               suggestions |-> << <<"Light prep - just wash and chop vegetables">> >> ]
      late == Len(analysis.late_night_needed) > 0
      projects == Len(analysis.cooking_project_days) > 0
  IN  [ meal_prep_strategy |-> prep.strategy,
        shopping_strategy |->
          IF late THEN "Buy slow cooker/Instant Pot ingredients" ELSE "",
        cooking_strategy |->
          IF projects
            THEN <<"Perfect days for cooking projects", analysis.cooking_project_days>>
            ELSE << >>,
        specific_suggestions |->
          prep.suggestions
          \o (IF late
                THEN << <<"Late night meals needed", analysis.late_night_needed>> >>
                ELSE << >>)
          \o (IF projects
                THEN << <<"Try new recipes or make-ahead meals on light days">> >>
                ELSE << >>) ]

\* the entry appended to busy_days or light_days
day_entry(day_info, day_analysis) ==
  [ day |-> day_info.day_name,
    date |-> day_info.date,
    busy_hours |-> day_analysis.total_hours,
    recommendation |-> day_analysis.recommendation ]

RECURSIVE week_loop(_, _, _, _)
\* the loop of analyze_weekly_schedule over day_i .. day_6
week_loop(events_by_date, week_meal_plan, weekly_analysis, i) ==
  IF i > 6 THEN weekly_analysis
  ELSE
    LET day_info == week_meal_plan[i]
        day_name == day_info.day_name
        day_analysis == is_busy_day(events_by_date, day_info.date)
        w == weekly_analysis
        next ==
          IF day_analysis.is_busy
            THEN [ w EXCEPT
                     !.busy_days = Append(@, day_entry(day_info, day_analysis)),
                     !.late_night_needed =
                       IF day_analysis.total_hours >= 8 * HOUR
                         THEN Append(@, day_name) ELSE @ ]
            ELSE [ w EXCEPT
                     !.light_days = Append(@, day_entry(day_info, day_analysis)),
                     !.best_prep_days =
                       IF day_name \in {"Sunday", "Saturday"}
                         THEN Append(@, day_name) ELSE @,
                     !.cooking_project_days =
                       IF /\ day_name \notin {"Sunday", "Saturday"}
                          /\ day_analysis.total_hours < 2 * HOUR
                         THEN Append(@, day_name) ELSE @ ]
    IN  week_loop(events_by_date, week_meal_plan, next, i + 1)

\* analyze_weekly_schedule(week_meal_plan)
analyze_weekly_schedule(events_by_date, week_meal_plan) ==
  LET weekly_analysis ==
        week_loop(events_by_date, week_meal_plan,
                  [ busy_days |-> << >>,
                    light_days |-> << >>,
                    best_prep_days |-> << >>,
                    late_night_needed |-> << >>,
                    cooking_project_days |-> << >> ], 0)
  IN  weekly_analysis @@
        [ weekly_recommendations |-> generate_weekly_recommendations(weekly_analysis) ]

(***************************************************************************)
(* A calendar filled by add_mock_events, then analysed: SpecCalendar       *)
(***************************************************************************)
\* event lists recorded on any day: an errand, a working day, and the
\* Tuesday of create_meal_prep_ui
CommonEvents ==
  { << [name |-> "Errand", duration_hours |-> 1 * HOUR] >>,
    << [name |-> "Work", duration_hours |-> 7 * HOUR] >>,
    << [name |-> "Work", duration_hours |-> 8 * HOUR],
       [name |-> "Evening event", duration_hours |-> 2 * HOUR] >> }

\* further event lists recorded on the first day of the plan: the
\* Monday/Wednesday/Friday of create_meal_prep_ui, exactly 6 hours in two
\* events, 3 hours in four events, 3 hours in two events, exactly 2 hours,
\* exactly 4 hours, and an event without a duration
FirstDayEvents ==
  { << [name |-> "Work meetings", duration_hours |-> 6 * HOUR],
       [name |-> "Commute", duration_hours |-> 90] >>,
    << [name |-> "Workshop", duration_hours |-> 4 * HOUR],
       [name |-> "Review", duration_hours |-> 2 * HOUR] >>,
    << [name |-> "Call", duration_hours |-> 45],
       [name |-> "Call", duration_hours |-> 45],
       [name |-> "Call", duration_hours |-> 45],
       [name |-> "Call", duration_hours |-> 45] >>,
    << [name |-> "School run", duration_hours |-> 90],
       [name |-> "School run", duration_hours |-> 90] >>,
    << [name |-> "Dentist", duration_hours |-> 2 * HOUR] >>,
    << [name |-> "Class", duration_hours |-> 4 * HOUR] >>,
    << [name |-> "Reminder"] >> }

\* what was done for day i of the plan: add_mock_events called with a list of
\* events, or not called
EventChoices(i) ==
  { [recorded |-> FALSE, events |-> << >>] }
  \cup { [recorded |-> TRUE, events |-> e] :
           e \in CommonEvents \cup (IF i = 0 THEN FirstDayEvents ELSE {}) }

RECURSIVE ReplayEvents(_, _)
\* the calendar after add_mock_events was called for the dates 0 .. i-1 that
\* have events
ReplayEvents(choice, i) ==
  IF i = 0 THEN << >>
  ELSE IF ~choice[i - 1].recorded THEN ReplayEvents(choice, i - 1)
  ELSE add_mock_events(ReplayEvents(choice, i - 1), i - 1, choice[i - 1].events)

InitCalendar ==
  /\ disliked_ingredients = << >>
  /\ loved_ingredients = << >>
  /\ never_suggest_again = << >>
  /\ family_favorites = << >>
  /\ last_4_weeks = << >>
  /\ today = 0
  /\ logged = << >>
  /\ meal_plan = new_meal_plan(0)
  /\ grocery_list = << >>
  /\ kroger_store = store_of(ZIP_CODE)
  /\ store_cache = cache_put(no_cache, ZIP_CODE, store_of(ZIP_CODE))
  /\ session_sale_items = << >>
  /\ rotator_recipes = expanded_recipes
  /\ ServerStart
  /\ \E c0 \in EventChoices(0), c1 \in EventChoices(1), c2 \in EventChoices(2),
        c3 \in EventChoices(3), c4 \in EventChoices(4), c5 \in EventChoices(5),
        c6 \in EventChoices(6) :
       calendar_events =
         ReplayEvents([i \in 0..6 |-> <<c0, c1, c2, c3, c4, c5, c6>>[i + 1]], 7)
  /\ ret = [op |-> "__init__", args |-> << >>, result |-> "none"]

\* a call of is_busy_day(date_str)
IsBusyDay(date_str) ==
  /\ ret.op = "__init__"
  /\ ret' = [ op |-> "is_busy_day", args |-> <<date_str>>,
              result |-> is_busy_day(calendar_events, date_str) ]
  /\ UNCHANGED << sessionVars, serverVars, prefsVars, historyVars >>

\* "Analyze This Week's Schedule": analyze_weekly_schedule(meal_plan)
AnalyzeWeeklySchedule ==
  /\ ret.op = "__init__"
  /\ ret' = [ op |-> "analyze_weekly_schedule", args |-> <<meal_plan>>,
              result |-> analyze_weekly_schedule(calendar_events, meal_plan) ]
  /\ UNCHANGED << sessionVars, serverVars, prefsVars, historyVars >>

NextCalendar ==
  \/ \E date_str \in {0, 1, 7} : IsBusyDay(date_str)
  \/ AnalyzeWeeklySchedule

SpecCalendar == InitCalendar /\ [][NextCalendar]_vars

\* C14: total_hours is the sum of the durations of the day's events, is_busy
\* holds exactly when total_hours is 6 hours or more or there are 4 or more
\* events, the recommendation follows the total, highest band first (8 hours
\* late-night/slow-cooker, 6 quick and easy, 4 normal with some prep, below
\* that any style), and a day without events is light with 0 hours.
DayClassified ==
  ret.op = "is_busy_day" =>
    LET events == events_on(calendar_events, ret.args[1])
        r == ret.result
        minutes == [k \in 1..Len(events) |->
                      IF "duration_hours" \in DOMAIN events[k]
                        THEN events[k].duration_hours ELSE 0]
        Sum[k \in 0..Len(events)] == IF k = 0 THEN 0 ELSE Sum[k - 1] + minutes[k]
    IN  /\ (\A k \in 1..Len(events) : "duration_hours" \in DOMAIN events[k])
             => r.total_hours = Sum[Len(events)]
        /\ r.event_count = Len(events)
        /\ r.is_busy <=> (r.total_hours >= 360 \/ Len(events) >= 4)
        /\ r.total_hours >= 480 => r.recommendation.meal_style = "late_night_ready"
        /\ (r.total_hours >= 360 /\ r.total_hours < 480)
             => r.recommendation.meal_style = "quick_and_easy"
        /\ (r.total_hours >= 240 /\ r.total_hours < 360)
             => r.recommendation.meal_style = "normal_with_prep"
        /\ r.total_hours < 240 => r.recommendation.meal_style = "any_style"
        /\ Len(events) = 0 => (~r.is_busy /\ r.total_hours = 0)

\* C14 witness: a day with four events that last 3 hours together was
\* classified busy, with the any-style recommendation of its 3 hours
DayClassifiedWitness ==
  /\ ret.op = "is_busy_day"
  /\ ret.result.event_count = 4
  /\ ret.result.total_hours = 180
  /\ ret.result.is_busy
  /\ ret.result.recommendation.meal_style = "any_style"

\* the days of the analysed plan that are busy by the rule of is_busy_day
BusyDayKeys ==
  {i \in 0..6 :
     LET events == events_on(calendar_events, meal_plan[i].date)
     IN  total_busy_hours_of(events) >= 360 \/ Len(events) >= 4}

\* the positions of the list whose entry is for the given day of the plan
EntriesOfDay(list, i) ==
  {k \in 1..Len(list) : list[k].day = meal_plan[i].day_name
                          /\ list[k].date = meal_plan[i].date}

\* C15: every day of the plan is in exactly one of busy_days and light_days,
\* in busy_days exactly when the day is busy, and the meal-prep strategy
\* follows the number of busy days: 4 or more heavy prep, 2 or 3 moderate
\* prep, 0 or 1 minimal prep.
WeekPartitioned ==
  ret.op = "analyze_weekly_schedule" =>
    LET r == ret.result
        n == Len(r.busy_days)
        strategy == r.weekly_recommendations.meal_prep_strategy
    IN  /\ Len(r.busy_days) + Len(r.light_days) = 7
        /\ \A i \in 0..6 :
             IF i \in BusyDayKeys
               THEN /\ Cardinality(EntriesOfDay(r.busy_days, i)) = 1
                    /\ EntriesOfDay(r.light_days, i) = {}
               ELSE /\ Cardinality(EntriesOfDay(r.light_days, i)) = 1
                    /\ EntriesOfDay(r.busy_days, i) = {}
        /\ n >= 4 =>
             strategy = "Heavy prep recommended - prep 3-4 meals on Sunday"
        /\ n \in {2, 3} =>
             strategy = "Moderate prep - focus on proteins and grains"
        /\ n \in {0, 1} =>
             strategy = "Minimal prep needed - cook fresh most days"

\* C15 witness: a plan with 5 days of 7 busy hours and 2 days of 1 hour was
\* analysed as 5 busy days, 2 light days and heavy prep
WeekPartitionedWitness ==
  /\ ret.op = "analyze_weekly_schedule"
  /\ Len(ret.result.busy_days) = 5
  /\ Len(ret.result.light_days) = 2
  /\ \A k \in 1..5 : ret.result.busy_days[k].busy_hours = 420
  /\ \A k \in 1..2 : ret.result.light_days[k].busy_hours = 60
  /\ ret.result.weekly_recommendations.meal_prep_strategy =
       "Heavy prep recommended - prep 3-4 meals on Sunday"

\* C16: cooking_project_days is exactly the set of light days with fewer
\* than 2 busy hours, whatever their weekday, light Saturdays and Sundays
\* included.
CookingProjectDaysAreQuietLightDays ==
  ret.op = "analyze_weekly_schedule" =>
    Range(ret.result.cooking_project_days) =
      { ret.result.light_days[k].day :
          k \in {j \in 1..Len(ret.result.light_days) :
                   ret.result.light_days[j].busy_hours < 120} }

(***************************************************************************)
(* MealPrepScheduler                                                       *)
(***************************************************************************)
\* self.prep_tasks[category]["time_minutes"]
prep_tasks ==
  [ proteins |-> [time_minutes |-> 30, keeps_days |-> 3],
    vegetables |-> [time_minutes |-> 20, keeps_days |-> 4],
    grains |-> [time_minutes |-> 25, keeps_days |-> 5],
    sauces_dressings |-> [time_minutes |-> 15, keeps_days |-> 7] ]

\* categorize_ingredient(ingredient)
categorize_ingredient(ingredient) ==
  LET ingredient_lower == Lower(ingredient) IN
  IF AnyKeywordIn(<< "chicken", "turkey", "salmon", "beef", "pork", "fish", "eggs" >>,
                  ingredient_lower)
    THEN "proteins"
  ELSE IF AnyKeywordIn(<< "broccoli", "spinach", "bell pepper", "sweet potato",
                          "asparagus", "carrots", "onion", "lettuce" >>,
                       ingredient_lower)
    THEN "vegetables"
  ELSE IF AnyKeywordIn(<< "rice", "quinoa", "pasta", "bread", "potato" >>,
                       ingredient_lower)
    THEN "grains"
  ELSE IF AnyKeywordIn(<< "sauce", "dressing", "marinade", "seasoning" >>,
                       ingredient_lower)
    THEN "sauces_dressings"
  ELSE "other"

\* _get_basic_ingredients_for_meal(meal_name)
get_basic_ingredients_for_meal(meal_name) ==
  LET meal_lower == Lower(meal_name) IN
  IF IsSubstring("chicken", meal_lower)
    THEN << "chicken breast", "olive oil", "seasonings", "vegetables" >>
  ELSE IF IsSubstring("salmon", meal_lower)
    THEN << "salmon", "lemon", "asparagus", "olive oil" >>
  ELSE IF IsSubstring("turkey", meal_lower) /\ IsSubstring("meatball", meal_lower)
    THEN << "ground turkey", "marinara sauce", "pasta", "herbs" >>
  ELSE IF IsSubstring("quinoa", meal_lower)
    THEN << "quinoa", "vegetables", "dressing" >>
  ELSE IF IsSubstring("scramble", meal_lower)
    THEN << "eggs", "turkey sausage", "bell pepper", "spinach" >>
  ELSE << "protein", "vegetables", "seasonings" >>

\* the meal slots in the order the loops visit them
MealSlots == << "breakfast", "lunch", "dinner" >>

RECURSIVE day_ingredients(_, _)
\* the ingredients of the non-empty meal slots of one day, from slot k on
day_ingredients(day_info, k) ==
  IF k > Len(MealSlots) THEN << >>
  ELSE (IF day_info[MealSlots[k]] # ""
          THEN get_basic_ingredients_for_meal(day_info[MealSlots[k]])
          ELSE << >>)
       \o day_ingredients(day_info, k + 1)

RECURSIVE week_ingredients(_, _)
\* all_ingredients after the loop over day_i .. day_6
week_ingredients(week_meal_plan, i) ==
  IF i > 6 THEN << >>
  ELSE day_ingredients(week_meal_plan[i], 1) \o week_ingredients(week_meal_plan, i + 1)

\* daily_tasks: the entry of every day marked late_night
late_night_tasks(week_meal_plan) ==
  LET late == {i \in 0..6 : week_meal_plan[i].late_night}
  IN  [ day_name \in {week_meal_plan[i].day_name : i \in late} |->
          [ morning |-> <<"Set up slow cooker or prep Instant Pot meal">>,
            evening |-> <<"Meal ready when you arrive home">>,
            prep_type |-> "late_night" ] ]

RECURSIVE Orders(_)
\* every order in which the elements of a set can be visited
Orders(S) ==
  IF S = {} THEN { << >> }
  ELSE UNION { { <<x>> \o rest : rest \in Orders(S \ {x}) } : x \in S }

\* analyze_week_schedule(week_meal_plan): one prep plan for every order in
\* which set(all_ingredients) can be visited
analyze_week_schedule(week_meal_plan) ==
  LET all_ingredients == Range(week_ingredients(week_meal_plan, 0))
      OfCategory(c) == {x \in all_ingredients : categorize_ingredient(x) = c}
  IN  { [ sunday_prep |-> << >>,
          mid_week_prep |-> << >>,
          daily_tasks |-> late_night_tasks(week_meal_plan),
          total_prep_time |-> 0,
          ingredients_by_category |->
            [ proteins |-> p, vegetables |-> v, grains |-> g,
              sauces_dressings |-> d, other |-> << >> ] ] :
        p \in Orders(OfCategory("proteins")),
        v \in Orders(OfCategory("vegetables")),
        g \in Orders(OfCategory("grains")),
        d \in Orders(OfCategory("sauces_dressings")) }

\* the Sunday tasks of create_prep_schedule; a task text that quotes a list is
\* the pair of its wording and the list
sunday_tasks_of(prep_plan) ==
  LET by_category == prep_plan.ingredients_by_category
      proteins == by_category.proteins
      grains == by_category.grains
      vegetables == by_category.vegetables
      sunday_veggies == SliceTo(vegetables, Len(vegetables) \div 2)
  IN  (IF Len(proteins) > 0
         THEN << [ category |-> "proteins",
                   task |-> <<"Prep proteins", SliceTo(proteins, 3)>>,
                   time_minutes |-> prep_tasks.proteins.time_minutes,
                   keeps_until |-> "Wednesday" ] >>
         ELSE << >>)
      \o (IF Len(grains) > 0
            THEN << [ category |-> "grains",
                      task |-> <<"Cook grains", SliceTo(grains, 2)>>,
                      time_minutes |-> prep_tasks.grains.time_minutes,
                      keeps_until |-> "Friday" ] >>
            ELSE << >>)
      \o (IF Len(vegetables) > 0 /\ Len(sunday_veggies) > 0
            THEN << [ category |-> "vegetables",
                      task |-> <<"Prep vegetables", sunday_veggies>>,
                      time_minutes |-> prep_tasks.vegetables.time_minutes \div 2,
                      keeps_until |-> "Wednesday" ] >>
            ELSE << >>)

\* mid_week_prep after create_prep_schedule: the list of the plan with the
\* task of the second half of the vegetables appended
mid_week_prep_of(prep_plan) ==
  LET vegetables == prep_plan.ingredients_by_category.vegetables
      midweek_veggies == SliceFrom(vegetables, Len(vegetables) \div 2)
  IN  prep_plan.mid_week_prep
      \o (IF Len(vegetables) > 0 /\ Len(midweek_veggies) > 0
            THEN << [ category |-> "vegetables",
                      task |-> <<"Fresh vegetables", midweek_veggies>>,
                      time_minutes |-> prep_tasks.vegetables.time_minutes \div 2,
                      day |-> "Wednesday",
                      keeps_until |-> "Saturday" ] >>
            ELSE << >>)

\* create_prep_schedule whose total counts the Sunday tasks only
create_prep_schedule_sunday_total(prep_plan) ==
  [ prep_plan EXCEPT
      !.sunday_prep = sunday_tasks_of(prep_plan),
      !.mid_week_prep = mid_week_prep_of(prep_plan),
      !.total_prep_time = SumField(sunday_tasks_of(prep_plan), "time_minutes") ]

\* create_prep_schedule(prep_plan)
create_prep_schedule(prep_plan) ==
  [ prep_plan EXCEPT
      !.sunday_prep = sunday_tasks_of(prep_plan),
      !.mid_week_prep = mid_week_prep_of(prep_plan),
      !.total_prep_time =
        SumField(sunday_tasks_of(prep_plan), "time_minutes")
        + SumField(mid_week_prep_of(prep_plan), "time_minutes") ]

(***************************************************************************)
(* "Generate Grocery List"                                                 *)
(***************************************************************************)
\* the items the handler adds to new_items for one meal
grocery_items_for_meal(meal) ==
  IF meal = "" THEN << >>
  ELSE IF IsSubstring("chicken", Lower(meal))
    THEN << "chicken breast", "seasonings", "olive oil" >>
  ELSE IF IsSubstring("salmon", Lower(meal))
    THEN << "salmon fillets", "vegetables", "lemon" >>
  ELSE IF IsSubstring("turkey", Lower(meal))
    THEN << "ground turkey", "herbs", "vegetables" >>
  ELSE << >>

\* day_info.get("dining_out", False) or day_info.get("out_of_town", False)
day_is_skipped(day_info) ==
  \/ "dining_out" \in DOMAIN day_info /\ day_info.dining_out
  \/ "out_of_town" \in DOMAIN day_info /\ day_info.out_of_town

RECURSIVE grocery_new_items_all_days(_, _)
\* new_items of a handler that visits every day
grocery_new_items_all_days(plan, i) ==
  IF i > 6 THEN << >>
  ELSE grocery_items_for_meal(plan[i].breakfast)
       \o grocery_items_for_meal(plan[i].lunch)
       \o grocery_items_for_meal(plan[i].dinner)
       \o grocery_new_items_all_days(plan, i + 1)

RECURSIVE grocery_new_items(_, _)
\* new_items after the loop over day_i .. day_6
grocery_new_items(plan, i) ==
  IF i > 6 THEN << >>
  ELSE (IF day_is_skipped(plan[i]) THEN << >>
        ELSE grocery_items_for_meal(plan[i].breakfast)
             \o grocery_items_for_meal(plan[i].lunch)
             \o grocery_items_for_meal(plan[i].dinner))
       \o grocery_new_items(plan, i + 1)

\* the grocery lists the handler can leave: the items of set(new_items) that
\* are not on the list, appended in any order
generate_grocery_list(list, plan) ==
  { list \o added :
      added \in Orders(Range(grocery_new_items(plan, 0)) \ Range(list)) }

(***************************************************************************)
(* A filled-in weekly plan, analysed and turned into groceries: SpecPlan   *)
(***************************************************************************)
\* the calendar create_meal_prep_ui fills on a Monday (day 0)
MockCalendar ==
  LET work_day == << [name |-> "Work meetings", duration_hours |-> 6 * HOUR],
                     [name |-> "Commute", duration_hours |-> 90] >>
      tuesday == << [name |-> "Work", duration_hours |-> 8 * HOUR],
                    [name |-> "Evening event", duration_hours |-> 2 * HOUR] >>
  IN  add_mock_events(
        add_mock_events(
          add_mock_events(add_mock_events(<< >>, 0, work_day), 1, tuesday),
          2, work_day),
        4, work_day)

\* the meals written into the slots of one day: by the text inputs, by
\* "Smart Fill Week" or by "Add to Today"
DayMenus ==
  { [breakfast |-> "", lunch |-> "", dinner |-> ""],
    [breakfast |-> "Veggie Scramble", lunch |-> "Quinoa Power Bowl", dinner |-> ""],
    [breakfast |-> "", lunch |-> "",
     dinner |-> "Baked Salmon with Roasted Vegetables"],
    [breakfast |-> "", lunch |-> "", dinner |-> "Sheet Pan Chicken Fajitas"],
    [breakfast |-> "Buttermilk Pancakes", lunch |-> "",
     dinner |-> "Turkey Meatballs with Marinara"] }

\* the three checkboxes of one day
DayFlags ==
  { [late_night |-> FALSE, dining_out |-> FALSE, out_of_town |-> FALSE],
    [late_night |-> TRUE, dining_out |-> FALSE, out_of_town |-> FALSE],
    [late_night |-> FALSE, dining_out |-> TRUE, out_of_town |-> FALSE],
    [late_night |-> FALSE, dining_out |-> FALSE, out_of_town |-> TRUE],
    [late_night |-> TRUE, dining_out |-> TRUE, out_of_town |-> TRUE] }

\* the days of the plan whose checkboxes and meal slots were written: a
\* weekday and a weekend day
TouchedDays == {0, 5}

\* the entry of a day after its checkboxes and meal slots were written
written_day(day_info, flags, menu) ==
  [ k \in (DOMAIN day_info) \cup {"dining_out", "out_of_town"} |->
      IF k \in DOMAIN flags THEN flags[k]
      ELSE IF k \in DOMAIN menu THEN menu[k]
      ELSE day_info[k] ]

\* grocery lists from earlier use of the grocery tab
EarlierGroceryLists == { << >>, << "olive oil", "milk" >> }

InitPlan ==
  /\ disliked_ingredients = << >>
  /\ loved_ingredients = << >>
  /\ never_suggest_again = << >>
  /\ family_favorites = << >>
  /\ last_4_weeks = << >>
  /\ today = 0
  /\ logged = << >>
  /\ calendar_events = MockCalendar
  /\ \E flags \in [TouchedDays -> DayFlags], menu \in [TouchedDays -> DayMenus] :
       meal_plan = [ i \in 0..6 |->
                       IF i \in TouchedDays
                         THEN written_day(new_day(i), flags[i], menu[i])
                         ELSE new_day(i) ]
  /\ grocery_list \in EarlierGroceryLists
  /\ kroger_store = store_of(ZIP_CODE)
  /\ store_cache = cache_put(no_cache, ZIP_CODE, store_of(ZIP_CODE))
  /\ session_sale_items = << >>
  /\ rotator_recipes = expanded_recipes
  /\ ServerStart
  /\ ret = [op |-> "__init__", args |-> << >>, result |-> "none"]

\* "Analyze This Week's Schedule": analyze_weekly_schedule, analyze_week_schedule
\* and create_prep_schedule on the session's meal plan
AnalyzeThisWeek ==
  /\ ret.op = "__init__"
  /\ \E meal_prep_plan \in analyze_week_schedule(meal_plan) :
       ret' = [ op |-> "analyze_this_week", args |-> <<meal_plan>>,
                weekly_analysis |-> analyze_weekly_schedule(calendar_events, meal_plan),
                meal_prep_plan |-> meal_prep_plan,
                result |-> create_prep_schedule(meal_prep_plan) ]
  /\ UNCHANGED << sessionVars, serverVars, prefsVars, historyVars >>

\* "Generate Grocery List"
GenerateGroceryList ==
  /\ ret.op = "__init__"
  /\ \E list \in generate_grocery_list(grocery_list, meal_plan) :
       /\ grocery_list' = list
       /\ ret' = [ op |-> "generate_grocery_list", args |-> <<grocery_list>>,
                   result |-> Cardinality(Range(grocery_new_items(meal_plan, 0))) ]
  /\ UNCHANGED << calendar_events, meal_plan, kroger_store, store_cache,
                  session_sale_items, rotator_recipes, serverVars, prefsVars, historyVars >>

NextPlan ==
  \/ AnalyzeThisWeek
  \/ GenerateGroceryList

SpecPlan == InitPlan /\ [][NextPlan]_vars

\* the tasks of a list that are for the given category
TasksOf(tasks, category) ==
  {k \in 1..Len(tasks) : tasks[k].category = category}

\* C17: the schedule has a 30-minute Sunday protein task iff proteins are
\* present, a 25-minute Sunday grain task iff grains are present, for n
\* vegetables a 10-minute Sunday task for the first n \div 2 of them when that
\* half is not empty and a 10-minute Wednesday midweek task for the rest, no
\* other task, and total_prep_time is the sum of the minutes of the Sunday
\* and the midweek tasks.
ScheduleBuilt ==
  ret.op = "analyze_this_week" =>
    LET by_category == ret.meal_prep_plan.ingredients_by_category
        sunday == ret.result.sunday_prep
        midweek == ret.result.mid_week_prep
        vegetables == by_category.vegetables
        n == Len(vegetables)
        half == n \div 2
    IN  /\ Cardinality(TasksOf(sunday, "proteins")) =
             (IF Len(by_category.proteins) > 0 THEN 1 ELSE 0)
        /\ \A k \in TasksOf(sunday, "proteins") : sunday[k].time_minutes = 30
        /\ Cardinality(TasksOf(sunday, "grains")) =
             (IF Len(by_category.grains) > 0 THEN 1 ELSE 0)
        /\ \A k \in TasksOf(sunday, "grains") : sunday[k].time_minutes = 25
        /\ Cardinality(TasksOf(sunday, "vegetables")) = (IF half > 0 THEN 1 ELSE 0)
        /\ \A k \in TasksOf(sunday, "vegetables") :
             /\ sunday[k].time_minutes = 10
             /\ sunday[k].task[2] = SubSeq(vegetables, 1, half)
        /\ Cardinality(TasksOf(midweek, "vegetables")) = (IF n > 0 THEN 1 ELSE 0)
        /\ \A k \in TasksOf(midweek, "vegetables") :
             /\ midweek[k].time_minutes = 10
             /\ midweek[k].day = "Wednesday"
             /\ midweek[k].task[2] = SubSeq(vegetables, half + 1, n)
        /\ \A k \in 1..Len(sunday) :
             sunday[k].category \in {"proteins", "grains", "vegetables"}
        /\ Len(midweek) = Cardinality(TasksOf(midweek, "vegetables"))
        /\ ret.result.total_prep_time =
             SumField(sunday, "time_minutes") + SumField(midweek, "time_minutes")

\* C17 witness: a plan with proteins, grains and three vegetables was
\* scheduled: one vegetable on Sunday, two on Wednesday, 75 minutes in all
ScheduleBuiltWitness ==
  /\ ret.op = "analyze_this_week"
  /\ Len(ret.meal_prep_plan.ingredients_by_category.vegetables) = 3
  /\ Len(ret.meal_prep_plan.ingredients_by_category.proteins) > 0
  /\ Len(ret.meal_prep_plan.ingredients_by_category.grains) > 0
  /\ Len(ret.result.sunday_prep) = 3
  /\ Len(ret.result.mid_week_prep) = 1
  /\ Len(ret.result.mid_week_prep[1].task[2]) = 2
  /\ ret.result.total_prep_time = 75

\* the plan in which the three meal slots of every day marked dining out or
\* out of town are empty
WithoutSkippedMeals(plan) ==
  [ i \in DOMAIN plan |->
      IF day_is_skipped(plan[i])
        THEN [plan[i] EXCEPT !.breakfast = "", !.lunch = "", !.dinner = ""]
        ELSE plan[i] ]

\* C18: the ingredients_by_category of the prep plan built for a weekly plan
\* is one that the plan with the meal slots of its dining-out and
\* out-of-town days emptied gives.
SkippedDaysAbsentFromPrepPlan ==
  ret.op = "analyze_this_week" =>
    \E q \in analyze_week_schedule(WithoutSkippedMeals(meal_plan)) :
      q.ingredients_by_category = ret.meal_prep_plan.ingredients_by_category

\* the grocery items implied by the meals of the days that are neither
\* marked dining out nor out of town
ImpliedGroceryItems ==
  UNION { Range(grocery_items_for_meal(meal_plan[i][slot])) :
            i \in {j \in 0..6 : ~day_is_skipped(meal_plan[j])},
            slot \in {"breakfast", "lunch", "dinner"} }

\* C19: "Generate Grocery List" keeps the list it found and appends, once
\* each, exactly the items implied by the meals of the unflagged days that
\* were not on the list; no item comes from a day marked dining out or out
\* of town.
GroceryListSkipsFlaggedDays ==
  ret.op = "generate_grocery_list" =>
    LET before == ret.args[1]
        added == SubSeq(grocery_list, Len(before) + 1, Len(grocery_list))
    IN  /\ Len(grocery_list) >= Len(before)
        /\ SubSeq(grocery_list, 1, Len(before)) = before
        /\ Range(added) = ImpliedGroceryItems \ Range(before)
        /\ Len(added) = Cardinality(Range(added))

\* C19 witness: the list was generated for a plan with a salmon dinner on a
\* day marked dining out or out of town and a chicken dinner on an unflagged
\* day; the chicken items were added and no salmon item was
GroceryListSkipsFlaggedDaysWitness ==
  /\ ret.op = "generate_grocery_list"
  /\ \E i \in 0..6 :
       /\ day_is_skipped(meal_plan[i])
       /\ IsSubstring("salmon", Lower(meal_plan[i].dinner))
  /\ \E i \in 0..6 :
       /\ ~day_is_skipped(meal_plan[i])
       /\ IsSubstring("chicken", Lower(meal_plan[i].dinner))
  /\ "chicken breast" \in Range(grocery_list)
  /\ "salmon fillets" \notin Range(grocery_list)
  /\ Len(grocery_list) > Len(ret.args[1])

(***************************************************************************)
(* The store: find_kroger_store and "Update Store Location"                *)
(***************************************************************************)
\* the ZIP codes typed into "Change store location (ZIP code)"
ZipCodes == {"home", "45202", "90210", "00000"}
\* the ZIP codes near which the locations service lists a Kroger store
ServedZipCodes == {"home", "45202", "90210"}

\* what the body of find_kroger_store returns: data["data"][0] on a 200 answer
\* with a location; None without a token, on another status, on an empty
\* "data" and on an exception
lookup_outcomes(zip_code) ==
  IF zip_code \in ServedZipCodes THEN {store_of(zip_code), None} ELSE {None}

\* find_kroger_store(zip_code) under st.cache_data: the cached result when there
\* is one, else a result of the body, which is then cached (None included);
\* the possible pairs [result, cache]
find_kroger_store(cache, zip_code) ==
  IF is_cached(cache, zip_code)
    THEN { [result |-> cached_result(cache, zip_code), cache |-> cache] }
    ELSE { [result |-> r, cache |-> cache_put(cache, zip_code, r)] :
             r \in lookup_outcomes(zip_code) }

\* the message of the "Update Store Location" handler
update_message(store) ==
  IF store # None THEN "Store updated!"
                  ELSE "Could not find store for that ZIP code"

\* a session starts: kroger_store is find_kroger_store(ZIP_CODE), found or not
InitStore ==
  /\ disliked_ingredients = << >>
  /\ loved_ingredients = << >>
  /\ never_suggest_again = << >>
  /\ family_favorites = << >>
  /\ last_4_weeks = << >>
  /\ today = 0
  /\ logged = << >>
  /\ calendar_events = << >>
  /\ meal_plan = new_meal_plan(0)
  /\ grocery_list = << >>
  /\ \E found \in find_kroger_store(no_cache, ZIP_CODE) :
       /\ kroger_store = found.result
       /\ store_cache = found.cache
  /\ session_sale_items = << >>
  /\ rotator_recipes = expanded_recipes
  /\ ServerStart
  /\ ret = [op |-> "__init__", args |-> << >>, result |-> "none"]

\* "Update Store Location": the result of the lookup is assigned to
\* st.session_state.kroger_store before it is tested
UpdateStoreLocation ==
  \E new_zip \in ZipCodes :
    \E found \in find_kroger_store(store_cache, new_zip) :
      /\ kroger_store' = found.result
      /\ store_cache' = found.cache
      /\ ret' = [ op |-> "update_store_location", args |-> <<new_zip>>,
                  store_before |-> kroger_store, found |-> found.result,
                  result |-> update_message(found.result) ]
      /\ UNCHANGED << calendar_events, meal_plan, grocery_list,
                      session_sale_items, rotator_recipes, serverVars, prefsVars, historyVars >>

\* ttl=3600: an hour after a lookup its cached result is dropped
CacheExpires ==
  \E e \in store_cache :
    /\ store_cache' = store_cache \ {e}
    /\ UNCHANGED << calendar_events, meal_plan, grocery_list, kroger_store,
                    session_sale_items, rotator_recipes, serverVars, prefsVars, historyVars, ret >>

NextStore == UpdateStoreLocation \/ CacheExpires

SpecStore == InitStore /\ [][NextStore]_vars

\* C20: when the lookup of "Update Store Location" finds no store, the handler
\* reports that it could not find one and the store selected before the update
\* is still the session's selected store.
PreviousStoreKeptWhenLookupFails ==
  (ret.op = "update_store_location" /\ ret.found = None)
    => /\ ret.result = "Could not find store for that ZIP code"
       /\ kroger_store = ret.store_before

(***************************************************************************)
(* The sales tab's refresh and "Smart Fill Week": SpecRefresh              *)
(***************************************************************************)
\* the sets of sale categories whose product search answers during one
\* refresh; a search that fails (no token, other status, exception) returns []
AnsweredCategories ==
  { {}, {"Chicken"}, {"Sweet Potato", "Broccoli"},
    {"Chicken", "Ground Turkey", "Sweet Potato", "Broccoli"} }

\* extract_sale_items(): [] without a store; else the promotions of the
\* categories whose search answered, in the order of the searches
extract_sale_items(store) ==
  IF store = None THEN { << >> }
  ELSE { PickItems({ i \in 1..Len(StoreSaleItems) :
                       StoreSaleItems[i].category \in answered }, 1) :
         answered \in AnsweredCategories }

\* place of `item` in a list sorted by discount_percentage, largest first,
\* behind the items of the same discount
InsertByDiscount(sorted, item) ==
  LET ahead == { i \in 1..Len(sorted) :
                   sorted[i].discount_percentage >= item.discount_percentage }
      k == Cardinality(ahead)
  IN  SubSeq(sorted, 1, k) \o <<item>> \o SubSeq(sorted, k + 1, Len(sorted))

RECURSIVE sort_by_discount(_, _)
\* sale_items.sort(key=lambda x: x['discount_percentage'], reverse=True) of
\* the first n items
sort_by_discount(items, n) ==
  IF n = 0 THEN << >>
  ELSE InsertByDiscount(sort_by_discount(items, n - 1), items[n])

\* st.session_state.sale_items after the sales tab has run with the list
\* `computed`: assigned, and sorted in place, only when the list is non-empty
sale_items_kept(held, computed) ==
  IF computed # << >> THEN sort_by_discount(computed, Len(computed)) ELSE held

\* the titles "Smart Fill Week" can write into an empty slot: the first
\* recommendation, from the sale-aware engine when there are sale items;
\* "" stands for no recommendation, which leaves the slot empty
first_titles(P, items, meal_type, day_type) ==
  IF items # << >>
    THEN { IF out.result = << >> THEN "" ELSE out.result[1].title :
             out \in get_sale_based_recommendations(P, items, meal_type, day_type, 1) }
    ELSE { IF result = << >> THEN "" ELSE result[1].title :
             result \in get_smart_recommendations(P, meal_type, day_type, 1) }

\* the empty slots of a plan, as pairs <<day, meal_type>>
empty_slots(plan) ==
  { e \in (DOMAIN plan) \X MealTypes : plan[e[1]][e[2]] = "" }

\* "Smart Fill Week": every plan the handler can leave
smart_fill_week(P, items, plan) ==
  LET day_type(i) == IF plan[i].is_weekend THEN "weekend" ELSE "weekday"
      choices == [ e \in empty_slots(plan) |->
                     first_titles(P, items, e[2], day_type(e[1])) ]
  IN  { [ i \in DOMAIN plan |->
            [ k \in DOMAIN plan[i] |->
                IF <<i, k>> \in DOMAIN choices THEN fill[<<i, k>>]
                ELSE plan[i][k] ] ] :
        fill \in { f \in [DOMAIN choices -> UNION {choices[e] : e \in DOMAIN choices}] :
                     \A e \in DOMAIN choices : f[e] \in choices[e] } }

\* the slots the household has not filled in yet
OpenSlots == { <<0, "dinner">>, <<5, "dinner">> }

\* a session, with or without a store, whose plan is filled in except for
\* the open slots
InitRefresh ==
  /\ disliked_ingredients = << >>
  /\ loved_ingredients = << >>
  /\ never_suggest_again = << >>
  /\ family_favorites = << >>
  /\ last_4_weeks = << >>
  /\ today = 0
  /\ logged = << >>
  /\ calendar_events = << >>
  /\ meal_plan = [ i \in 0..6 |->
                     [ k \in DOMAIN new_day(i) |->
                         IF k \in MealTypes /\ <<i, k>> \notin OpenSlots
                           THEN "Leftovers" ELSE new_day(i)[k] ] ]
  /\ grocery_list = << >>
  /\ \E found \in find_kroger_store(no_cache, ZIP_CODE) :
       /\ kroger_store = found.result
       /\ store_cache = found.cache
  /\ session_sale_items = << >>
  /\ rotator_recipes = expanded_recipes
  /\ ServerStart
  /\ ret = [op |-> "__init__", args |-> << >>, result |-> "none"]

\* a run of the sales tab; `pressed` is "Refresh Sales Data", which first
\* clears every st.cache_data cache
RefreshSalesData(pressed) ==
  \E computed \in extract_sale_items(kroger_store) :
    /\ store_cache' = IF pressed THEN no_cache ELSE store_cache
    /\ session_sale_items' = sale_items_kept(session_sale_items, computed)
    /\ ret' = [ op |-> "refresh_sales", args |-> <<pressed>>,
                computed |-> computed,
                result |-> IF computed # << >> THEN "Found items on sale!"
                                               ELSE "No current sales found" ]
    /\ UNCHANGED << calendar_events, meal_plan, grocery_list, kroger_store,
                    rotator_recipes, serverVars, prefsVars, historyVars >>

\* "Smart Fill Week" on the session's plan
SmartFillWeek ==
  \E plan \in smart_fill_week(Prefs, session_sale_items, meal_plan) :
    /\ meal_plan' = plan
    /\ ret' = [ op |-> "smart_fill_week", args |-> <<session_sale_items>>,
                result |-> "Week filled with smart, money-saving recommendations!" ]
    /\ UNCHANGED << calendar_events, grocery_list, kroger_store, store_cache,
                    session_sale_items, rotator_recipes, serverVars, prefsVars, historyVars >>

NextRefresh ==
  \/ \E pressed \in BOOLEAN : RefreshSalesData(pressed)
  \/ SmartFillWeek

SpecRefresh == InitRefresh /\ [][NextRefresh]_vars

\* C21: after every sales refresh the sale-item list the session holds, which
\* later recommendations read, is the list that refresh computed (ordered by
\* discount); when the refresh computed nothing it is the empty list.
HeldSaleItemsAreLastRefresh ==
  ret.op = "refresh_sales" =>
    session_sale_items = sort_by_discount(ret.computed, Len(ret.computed))

(***************************************************************************)
(* The catalog as an object the recommenders hold: SpecCatalog             *)
(***************************************************************************)
\* the key of self.expanded_recipes that get_smart_recommendations reads
select_group(meal_type, day_type) ==
  IF day_type = "weekend"
    THEN IF meal_type = "breakfast" THEN "weekend_breakfast"
         ELSE IF meal_type = "dinner" THEN "weekend_dinner"
         ELSE "weekday_lunch"
    ELSE IF meal_type = "breakfast" THEN "weekday_breakfast"
         ELSE IF meal_type = "lunch" THEN "weekday_lunch"
         ELSE "weekday_dinner"

\* A reference to a dict: `home` is <<group, index>> when the dict is the
\* recipe at that place of the catalog and << >> when no catalog list holds
\* it; `fields` is its content.
catalog_ref(catalog, group, i) ==
  [home |-> <<group, i>>, fields |-> catalog[group][i]]

\* recipe_copy = recipe: the same dict under another name
dict_alias(ref) == ref

\* recipe.copy(): a new dict with the same content
dict_copy(ref) == [home |-> << >>, fields |-> ref.fields]

\* ref[key] = value: the dict written to, and the catalog, which changes
\* when the dict is one of its recipes
dict_set(catalog, ref, key, value) ==
  LET fields == [ k \in (DOMAIN ref.fields) \cup {key} |->
                    IF k = key THEN value ELSE ref.fields[k] ]
  IN  [ ref |-> [ref EXCEPT !.fields = fields],
        catalog |-> IF ref.home = << >> THEN catalog
                    ELSE [catalog EXCEPT ![ref.home[1]][ref.home[2]] = fields] ]

\* random.shuffle(lst) and lst.sort(...): `home` is the catalog key when lst
\* is that list of the catalog and "" for a list built by the call
list_reorder(catalog, home, reordered) ==
  IF home = "" THEN catalog ELSE [catalog EXCEPT ![home] = reordered]

\* the catalog after get_smart_recommendations: filtered_recipes, favorites,
\* non_favorites and result are lists built by the call (they hold the
\* catalog's dicts); the writes are the two shuffles
catalog_after_recommend(catalog, favorites, non_favorites) ==
  list_reorder(list_reorder(catalog, "", favorites), "", non_favorites)

RECURSIVE catalog_after_scoring(_, _, _, _)
\* the catalog after the scoring loop of get_sale_based_recommendations over
\* the first n recipes: each recipe returned by the rotator is the catalog's
\* dict of that title; it is copied and the three annotations are written to
\* the copy
catalog_after_scoring(catalog, group, scored_recipes, n) ==
  IF n = 0 THEN catalog
  ELSE LET before == catalog_after_scoring(catalog, group, scored_recipes, n - 1)
           scored == scored_recipes[n]
           i == CHOOSE j \in 1..Len(before[group]) :
                  before[group][j].title = scored.title
           recipe_copy == dict_copy(catalog_ref(before, group, i))
           w1 == dict_set(before, recipe_copy, "sale_score", scored.sale_score)
           w2 == dict_set(w1.catalog, w1.ref, "sale_benefits", scored.sale_benefits)
           w3 == dict_set(w2.catalog, w2.ref, "total_sale_savings",
                          scored.total_sale_savings)
       IN  w3.catalog

\* the counts and the meal asked of either recommender here
CatalogCounts == {1, 2}
CatalogMealTypes == {"dinner"}

\* a household with or without its favorites
InitCatalog ==
  /\ disliked_ingredients = << >>
  /\ loved_ingredients = << >>
  /\ never_suggest_again = << >>
  /\ \E f \in {0, Len(FavoriteScript)} : family_favorites = ReplayFavorites(f)
  /\ last_4_weeks = << >>
  /\ today = 0
  /\ logged = << >>
  /\ SessionStart
  /\ ret = [op |-> "__init__", args |-> << >>, result |-> "none"]

\* get_smart_recommendations(meal_type, day_type, count), after any calls
Recommend(meal_type, day_type, count) ==
  LET filtered == filtered_recipes(Prefs, select_recipes(meal_type, day_type), count)
  IN  \E favorites \in Shuffles(favorites_of(Prefs, filtered)),
         non_favorites \in Shuffles(non_favorites_of(Prefs, filtered)) :
        /\ rotator_recipes' =
             catalog_after_recommend(rotator_recipes, favorites, non_favorites)
        /\ ret' = [ op |-> "get_smart_recommendations",
                    args |-> <<meal_type, day_type, count>>,
                    result |-> build_result(favorites, non_favorites, count) ]
        /\ UNCHANGED << calendar_events, meal_plan, grocery_list, kroger_store,
                        store_cache, session_sale_items, serverVars, prefsVars,
                    historyVars >>

\* get_sale_based_recommendations(sale_items, meal_type, day_type, count),
\* after any calls
SaleRecommend(sale_items, meal_type, day_type, count) ==
  \E out \in get_sale_based_recommendations(Prefs, sale_items, meal_type,
                                            day_type, count) :
    /\ rotator_recipes' =
         catalog_after_scoring(rotator_recipes, select_group(meal_type, day_type),
                               out.scored_recipes, Len(out.scored_recipes))
    /\ ret' = [ op |-> "get_sale_based_recommendations",
                args |-> <<meal_type, day_type, count, sale_items>>,
                result |-> out.result ]
    /\ UNCHANGED << calendar_events, meal_plan, grocery_list, kroger_store,
                    store_cache, session_sale_items, serverVars, prefsVars,
                    historyVars >>

NextCatalog ==
  \/ \E meal_type \in CatalogMealTypes, day_type \in DayTypes, count \in CatalogCounts :
       Recommend(meal_type, day_type, count)
  \/ \E sale_items \in extract_sale_items(store_of(ZIP_CODE)),
        meal_type \in CatalogMealTypes, day_type \in DayTypes, count \in CatalogCounts :
       SaleRecommend(sale_items, meal_type, day_type, count)

SpecCatalog == InitCatalog /\ [][NextCatalog]_vars

SaleAnnotations == {"sale_score", "sale_benefits", "total_sale_savings"}

\* C22: after any sequence of calls of the two recommenders the catalog holds,
\* in every group, the recipes it was built with, in the same order and with
\* the same fields; no recipe of the catalog carries a sale annotation, and
\* every recipe the sale-aware recommender returns carries all three.
CatalogNeverChanges ==
  /\ rotator_recipes = expanded_recipes
  /\ ServerStart
  /\ \A g \in DOMAIN rotator_recipes : \A i \in 1..Len(rotator_recipes[g]) :
       SaleAnnotations \cap DOMAIN rotator_recipes[g][i] = {}
  /\ ret.op = "get_sale_based_recommendations" =>
       \A i \in 1..Len(ret.result) : SaleAnnotations \subseteq DOMAIN ret.result[i]

\* a sale-aware call has returned two annotated copies, the first with a
\* sale match
CatalogNeverChangesWitness ==
  /\ ret.op = "get_sale_based_recommendations"
  /\ Len(ret.result) = 2
  /\ ret.result[1].sale_score > 0
  /\ Len(ret.result[1].sale_benefits) > 0
  /\ rotator_recipes = expanded_recipes
  /\ ServerStart

(***************************************************************************)
(* The plan when the date changes: SpecRollover                            *)
(***************************************************************************)
\* d.get(key, default)
dict_get(d, key, default) == IF key \in DOMAIN d THEN d[key] ELSE default

\* a plan rebuilt empty for the new date
roll_over_blank(plan, now) == new_meal_plan(now)

\* the branch taken when datetime.now().date() != last_update_date: entry i
\* is rebuilt for the date now + i and keeps the meal slots and the
\* late-night flag entry i had
roll_over(plan, now) ==
  [ i \in 0..6 |->
      [ date |-> now + i,
        day_name |-> day_name_of(now + i),
        is_weekend |-> day_name_of(now + i) \in {"Saturday", "Sunday"},
        breakfast |-> dict_get(plan[i], "breakfast", ""),
        lunch |-> dict_get(plan[i], "lunch", ""),
        dinner |-> dict_get(plan[i], "dinner", ""),
        late_night |-> dict_get(plan[i], "late_night", FALSE),
        prep_needed |-> FALSE ] ]

\* the most days that pass between two runs of the script
MaxDaysAway == 2
\* the last day the session is used
LastRolloverDay == 3

\* a session on day 0 whose plan has a weekday and a weekend day filled in;
\* last_update_date is the date of the plan's first entry
InitRollover ==
  /\ disliked_ingredients = << >>
  /\ loved_ingredients = << >>
  /\ never_suggest_again = << >>
  /\ family_favorites = << >>
  /\ last_4_weeks = << >>
  /\ today = 0
  /\ logged = << >>
  /\ calendar_events = << >>
  /\ \E flags \in [TouchedDays -> DayFlags], menu \in [TouchedDays -> DayMenus] :
       meal_plan = [ i \in 0..6 |->
                       IF i \in TouchedDays
                         THEN written_day(new_day(i), flags[i], menu[i])
                         ELSE new_day(i) ]
  /\ grocery_list = << >>
  /\ kroger_store = store_of(ZIP_CODE)
  /\ store_cache = cache_put(no_cache, ZIP_CODE, store_of(ZIP_CODE))
  /\ session_sale_items = << >>
  /\ rotator_recipes = expanded_recipes
  /\ ServerStart
  /\ ret = [op |-> "__init__", args |-> << >>, result |-> "none"]

\* the first run of the script after the date has changed by `days`
DateChanges(days) ==
  /\ today + days <= LastRolloverDay
  /\ today' = today + days
  /\ meal_plan[0].date # today'
  /\ meal_plan' = roll_over(meal_plan, today')
  /\ ret' = [op |-> "roll_over", args |-> <<meal_plan>>, result |-> days]
  /\ UNCHANGED << calendar_events, grocery_list, kroger_store, store_cache,
                  session_sale_items, rotator_recipes, serverVars, prefsVars, last_4_weeks,
                  logged >>

NextRollover == \E days \in 1..MaxDaysAway : DateChanges(days)

SpecRollover == InitRollover /\ [][NextRollover]_vars

\* C23: after the date has changed the plan has seven entries, entry i is
\* dated today + i with that date's weekday name and weekend flag, and the
\* three meal slots of entry i are those entry i held before.
PlanRolledOver ==
  ret.op = "roll_over" =>
    /\ DOMAIN meal_plan = 0..6
    /\ \A i \in 0..6 :
         /\ meal_plan[i].date = today + i
         /\ meal_plan[i].day_name = DayNames[((today + i) % 7) + 1]
         /\ meal_plan[i].is_weekend = (((today + i) % 7) \in {5, 6})
         /\ \A slot \in MealTypes : meal_plan[i][slot] = ret.args[1][i][slot]

\* the date changed by two days over a plan with a Monday breakfast and a
\* Saturday dinner, which now stand on Wednesday and on Monday
PlanRolledOverWitness ==
  /\ ret.op = "roll_over"
  /\ today = 2
  /\ ret.args[1][0].breakfast = "Veggie Scramble"
  /\ meal_plan[0].breakfast = "Veggie Scramble"
  /\ meal_plan[0].day_name = "Wednesday"
  /\ meal_plan[5].dinner = "Sheet Pan Chicken Fajitas"
  /\ meal_plan[5].day_name = "Monday"
  /\ ~meal_plan[5].is_weekend

(***************************************************************************)
(* Two browser sessions of one server process: SpecSessions                *)
(***************************************************************************)
\* the fields of a FamilyPreferencesManager after __init__
new_manager ==
  [ disliked_ingredients |-> << >>, loved_ingredients |-> << >>,
    never_suggest_again |-> << >>, family_favorites |-> << >>,
    last_4_weeks |-> << >> ]

\* one manager for the whole process: the first is created, later sessions
\* are handed the same object
shared_family_prefs(objs) ==
  IF Len(objs) = 0 THEN [id |-> 1, objects |-> Append(objs, new_manager)]
  ELSE [id |-> 1, objects |-> objs]

\* FamilyPreferencesManager(): a new object, with lists of its own
new_family_prefs(objs) ==
  [id |-> Len(objs) + 1, objects |-> Append(objs, new_manager)]

\* the manager a session's handlers write to and the one its rotator reads;
\* new_manager stands for a session that has not run yet
manager_of(s) ==
  IF session_state[s].family_prefs = 0 THEN new_manager
  ELSE objects[session_state[s].family_prefs]
rotator_manager_of(s) ==
  IF session_state[s].rotator_prefs = 0 THEN new_manager
  ELSE objects[session_state[s].rotator_prefs]

\* the most meals a session logs
MaxSessionLogs == 1

\* the manager m after each call the sessions make
manager_add_dislike(m, ingredient) ==
  LET lists == add_dislike(m.disliked_ingredients, m.loved_ingredients, ingredient)
  IN  [m EXCEPT !.disliked_ingredients = lists.disliked_ingredients,
                !.loved_ingredients = lists.loved_ingredients]
manager_add_love(m, ingredient) ==
  LET lists == add_love(m.disliked_ingredients, m.loved_ingredients, ingredient)
  IN  [m EXCEPT !.disliked_ingredients = lists.disliked_ingredients,
                !.loved_ingredients = lists.loved_ingredients]
manager_ban_recipe(m, recipe_title) ==
  [m EXCEPT !.never_suggest_again = ban_recipe(m.never_suggest_again, recipe_title)]
manager_add_favorite(m, recipe_title) ==
  [m EXCEPT !.family_favorites = add_favorite(m.family_favorites, recipe_title)]
manager_log_meal(m, recipe_title, date) ==
  [m EXCEPT !.last_4_weeks = log_meal(m.last_4_weeks, recipe_title, date)]

\* the calls a session makes on a manager m: <<op, argument, manager after>>
SessionCalls(m) ==
  { <<"add_dislike", " Garlic", manager_add_dislike(m, " Garlic")>>,
    <<"add_love", "garlic", manager_add_love(m, "garlic")>>,
    <<"ban_recipe", "Grilled Chicken with Quinoa",
      manager_ban_recipe(m, "Grilled Chicken with Quinoa")>>,
    <<"add_favorite", "Baked Salmon with Roasted Vegetables",
      manager_add_favorite(m, "Baked Salmon with Roasted Vegetables")>> }
  \cup (IF Len(m.last_4_weeks) < MaxSessionLogs
          THEN { <<"log_meal", "Sheet Pan Chicken Fajitas",
                   manager_log_meal(m, "Sheet Pan Chicken Fajitas", 0)>> }
          ELSE {})

RECURSIVE ManagersFrom(_)
\* every state these calls can bring a manager to, starting from the set M
ManagersFrom(M) ==
  LET N == M \cup { c[3] : c \in UNION { SessionCalls(m) : m \in M } }
  IN  IF N = M THEN M ELSE ManagersFrom(N)

\* the weekday dinners a rotator can recommend on each such manager,
\* computed once
DinnerRecommendations ==
  [ m \in ManagersFrom({new_manager}) |->
      get_smart_recommendations(m, "dinner", "weekday", 2) ]

\* what session s shows: its preferences, its meal history and the weekday
\* dinners its rotator can recommend
Observed(s) ==
  [ preferences |-> manager_of(s),
    recommendations |-> DinnerRecommendations[rotator_manager_of(s)] ]

\* the first run of the script in session s: family_prefs is created and
\* the rotator is built on it
ConnectSession(s) ==
  /\ session_state[s].family_prefs = 0
  /\ LET made == new_family_prefs(objects)
     IN  /\ objects' = made.objects
         /\ session_state' = [session_state EXCEPT
                                ![s] = [family_prefs |-> made.id,
                                        rotator_prefs |-> made.id]]
  /\ ret' = [op |-> "connect", session |-> s, args |-> << >>, result |-> "none"]
  /\ UNCHANGED << sessionVars, prefsVars, historyVars >>

\* a handler of session s calls add_dislike, add_love, ban_recipe,
\* add_favorite or log_meal on the session's manager
SessionCall(s) ==
  /\ session_state[s].family_prefs # 0
  /\ \E c \in SessionCalls(manager_of(s)) :
       /\ objects' = [objects EXCEPT ![session_state[s].family_prefs] = c[3]]
       /\ ret' = [op |-> c[1], session |-> s, args |-> <<c[2]>>, result |-> "none"]
  /\ UNCHANGED << sessionVars, session_state, prefsVars, historyVars >>

NextSessions ==
  \E s \in Sessions : ConnectSession(s) \/ SessionCall(s)

InitSessions ==
  /\ disliked_ingredients = << >>
  /\ loved_ingredients = << >>
  /\ never_suggest_again = << >>
  /\ family_favorites = << >>
  /\ last_4_weeks = << >>
  /\ today = 0
  /\ logged = << >>
  /\ SessionStart
  /\ ret = [op |-> "__init__", args |-> << >>, result |-> "none"]

SpecSessions == InitSessions /\ [][NextSessions]_vars

\* C24: a step that session s takes (connecting, a preference mutator or
\* log_meal) leaves what the other session shows as it was: its preferences,
\* its meal history and its recommendations.
SessionsIsolated ==
  [][ \A t \in Sessions : (ret'.session # t) => (Observed(t)' = Observed(t)) ]_vars

\* session 1 has just disliked garlic while session 2, connected, has banned
\* a recipe and still shows no dislike
SessionsIsolatedWitness ==
  /\ ret.op = "add_dislike"
  /\ ret.session = 1
  /\ session_state[2].family_prefs # 0
  /\ manager_of(1).disliked_ingredients = << "garlic" >>
  /\ manager_of(2).disliked_ingredients = << >>
  /\ manager_of(2).never_suggest_again = << "Grilled Chicken with Quinoa" >>
  /\ Observed(1).recommendations # Observed(2).recommendations

(***************************************************************************)
(* Recommendations while meals are logged and recipes banned: SpecRotation *)
(***************************************************************************)
\* the most meals logged in the run
MaxRotationLogs == 8

\* the dinner whose rotation is followed
RotatedDinner == ServedScript[1]

\* "We Made This": log_meal(title, today); the followed dinner is served once
ServeMeal(recipe_title) ==
  /\ Len(last_4_weeks) < MaxRotationLogs
  /\ recipe_title = RotatedDinner =>
       \A i \in 1..Len(last_4_weeks) : last_4_weeks[i].recipe # RotatedDinner
  /\ last_4_weeks' = log_meal(last_4_weeks, recipe_title, today)
  /\ logged' = Append(logged, [recipe |-> recipe_title, date |-> today])
  /\ ret' = [op |-> "log_meal", args |-> <<recipe_title, today>>, result |-> "none"]
  /\ UNCHANGED << sessionVars, serverVars, prefsVars, today >>

\* "Never Again": ban_recipe(title)
BanRecipe(recipe_title) ==
  /\ never_suggest_again' = ban_recipe(never_suggest_again, recipe_title)
  /\ ret' = [op |-> "ban_recipe", args |-> <<recipe_title>>, result |-> "none"]
  /\ UNCHANGED << sessionVars, serverVars, disliked_ingredients, loved_ingredients,
                  family_favorites, historyVars >>

\* "Unban" beside the i-th banned recipe
UnbanRecipe(i) ==
  /\ i \in 1..Len(never_suggest_again)
  /\ never_suggest_again' = ListRemove(never_suggest_again, never_suggest_again[i])
  /\ ret' = [op |-> "unban_recipe", args |-> <<never_suggest_again[i]>>,
             result |-> "none"]
  /\ UNCHANGED << sessionVars, serverVars, disliked_ingredients, loved_ingredients,
                  family_favorites, historyVars >>

\* the counts asked: one, and the whole group, for which the second pass
\* runs as soon as the first pass drops a recipe
RotationCounts == {1, 4}

NextRotation ==
  \/ \E t \in {RotatedDinner, FillerTitle} : ServeMeal(t)
  \/ BanRecipe(BanScript[1])
  \/ UnbanRecipe(1)
  \/ AddDislike(DislikeScript[1])
  \/ RemoveDislike(1)
  \/ \E count \in RotationCounts : Recommend("dinner", "weekday", count)

SpecRotation == Init /\ [][NextRotation]_vars

\* C25: in every case, the second pass included, no recommended recipe has a
\* disliked ingredient, is banned, or has its title among the 7 most recent
\* history entries; so a recipe that was logged is recommended only when at
\* least 7 meals were logged after it, and a banned recipe only once unbanned.
NeverRecommendsExcluded ==
  ret.op = "get_smart_recommendations" =>
    \A k \in 1..Len(ret.result) :
      LET recipe == ret.result[k]
          n == Len(last_4_weeks)
      IN  /\ ~recipe_contains_dislikes(disliked_ingredients, recipe)
          /\ \A i \in 1..Len(never_suggest_again) :
               never_suggest_again[i] # recipe.title
          /\ \A i \in 1..n :
               last_4_weeks[i].recipe = recipe.title => n - i >= 7

\* the second pass brought back the dinner logged exactly 7 meals ago, while
\* a recipe is banned and an ingredient disliked
NeverRecommendsExcludedWitness ==
  /\ ret.op = "get_smart_recommendations"
  /\ ret.args[3] = 4
  /\ Len(last_4_weeks) = 8
  /\ last_4_weeks[1].recipe = RotatedDinner
  /\ \E k \in 1..Len(ret.result) : ret.result[k].title = RotatedDinner
  /\ never_suggest_again = << "Grilled Chicken with Quinoa" >>
  /\ disliked_ingredients = << "garlic" >>

(***************************************************************************)
(* Favorites and large counts: SpecFavorites                               *)
(***************************************************************************)
\* the counts asked: below 6 one favorite leads the result, from 6 on
\* count // 3 of them, and the count is then above the size of every group
FavoriteCounts == {0, 1, 2, 3, 6, 7}

\* a household with some of its favorites marked, a recipe banned or not,
\* and some dinners served
InitFavorites ==
  /\ disliked_ingredients = << >>
  /\ loved_ingredients = << >>
  /\ \E k \in 0..Len(BanScript) : never_suggest_again = ReplayBans(k)
  /\ \E f \in 0..Len(FavoriteScript) : family_favorites = ReplayFavorites(f)
  /\ \E a \in {0, 2} :
       /\ logged = PastMeals(a, 0, 1)
       /\ last_4_weeks = Replay(PastMeals(a, 0, 1), a)
  /\ today = 0
  /\ SessionStart
  /\ ret = [op |-> "__init__", args |-> << >>, result |-> "none"]

NextFavorites ==
  \E day_type \in DayTypes, count \in FavoriteCounts :
    Recommend("dinner", day_type, count)

SpecFavorites == InitFavorites /\ [][NextFavorites]_vars

\* the positions of the result that hold a family favorite
FavoritePositions ==
  { k \in 1..Len(ret.result) :
      \E i \in 1..Len(family_favorites) : family_favorites[i] = ret.result[k].title }

\* C26: whatever the two shuffles give, the result holds at most
\* max(1, count // 3) favorites and each of them stands before every recipe
\* that is not a favorite.
FavoritesLeadAndAreCapped ==
  ret.op = "get_smart_recommendations" =>
    /\ Cardinality(FavoritePositions)
         <= (IF ret.args[3] >= 6 THEN ret.args[3] \div 3 ELSE 1)
    /\ \A j \in FavoritePositions : \A i \in 1..(j - 1) : i \in FavoritePositions

\* a group with two favorites: one call returned both ahead of the rest
\* (count 6), another only one of them (count 3)
FavoritesLeadAndAreCappedWitness ==
  /\ ret.op = "get_smart_recommendations"
  /\ ret.args[2] = "weekday"
  /\ Len(family_favorites) >= 2
  /\ \/ ret.args[3] = 6 /\ FavoritePositions = {1, 2} /\ Len(ret.result) = 4
     \/ ret.args[3] = 3 /\ FavoritePositions = {1} /\ Len(ret.result) = 3

\* C27: whatever the preferences, the history and the shuffles, and also when
\* the second pass runs over the whole group again, the titles of the result
\* are pairwise distinct.
ResultTitlesDistinct ==
  ret.op = "get_smart_recommendations" =>
    \A i, j \in 1..Len(ret.result) :
      ret.result[i].title = ret.result[j].title => i = j

\* count 6 of a group of four: the second pass ran over the group again
\* and each dinner is returned once
ResultTitlesDistinctWitness ==
  /\ ret.op = "get_smart_recommendations"
  /\ ret.args[3] = 6
  /\ last_4_weeks = << >>
  /\ Len(family_favorites) >= 2
  /\ Len(ret.result) = 4
  /\ {ret.result[k].title : k \in 1..4} = {ServedScript[k] : k \in 1..4}

(***************************************************************************)
(* create_prep_schedule called twice on one prep plan: SpecPrepTwice       *)
(***************************************************************************)
\* the prep plan passed to create_prep_schedule, after the call: schedule is
\* prep_plan.copy(), a shallow copy, so schedule["mid_week_prep"] is the
\* plan's own list and the append reaches the plan; sunday_prep and
\* total_prep_time are assigned on the copy alone
prep_plan_after(prep_plan) ==
  [prep_plan EXCEPT !.mid_week_prep = mid_week_prep_of(prep_plan)]

\* analyze_week_schedule on the session's plan, then create_prep_schedule
\* twice on the prep plan it returned
CreatePrepScheduleTwice ==
  /\ ret.op = "__init__"
  /\ \E prep_plan \in analyze_week_schedule(meal_plan) :
       ret' = [ op |-> "create_prep_schedule_twice", args |-> <<prep_plan>>,
                first |-> create_prep_schedule(prep_plan),
                prep_plan_after |-> prep_plan_after(prep_plan),
                result |-> create_prep_schedule(prep_plan_after(prep_plan)) ]
  /\ UNCHANGED << sessionVars, serverVars, prefsVars, historyVars >>

NextPrepTwice == CreatePrepScheduleTwice

SpecPrepTwice == InitPlan /\ [][NextPrepTwice]_vars

\* C28: create_prep_schedule leaves the prep plan it is given as it was, and
\* a second call on the same prep plan returns the midweek tasks and the
\* total prep time of the first.
PrepPlanLeftUnchanged ==
  ret.op = "create_prep_schedule_twice" =>
    /\ ret.prep_plan_after = ret.args[1]
    /\ ret.result.mid_week_prep = ret.first.mid_week_prep
    /\ ret.result.total_prep_time = ret.first.total_prep_time

(***************************************************************************)
(* The grocery list under all of its handlers: SpecGrocery                 *)
(***************************************************************************)
\* list.append(item) without the test
append_always(list, item) == Append(list, item)

\* if item not in list: list.append(item)
append_if_absent(list, item) ==
  IF ~InList(item, list) THEN Append(list, item) ELSE list

RECURSIVE add_ingredients(_, _, _)
\* "+ Ingredients": the loop over recipe.get("all_ingredients", []) from i on
add_ingredients(list, ingredients, i) ==
  IF i > Len(ingredients) THEN list
  ELSE add_ingredients(append_if_absent(list, ingredients[i]), ingredients, i + 1)

\* what is typed into "Add item to grocery list"
TypedItems == {"", "olive oil", "milk"}
\* the recipe whose "+ Ingredients" is pressed
ShownRecipe == RecipeOf("Sheet Pan Chicken Fajitas")
\* the items whose remove button is pressed
RemovedItems == {"olive oil", "seasonings"}

\* a session whose plan holds a chicken dinner on its first day
InitGrocery ==
  /\ disliked_ingredients = << >>
  /\ loved_ingredients = << >>
  /\ never_suggest_again = << >>
  /\ family_favorites = << >>
  /\ last_4_weeks = << >>
  /\ today = 0
  /\ logged = << >>
  /\ calendar_events = << >>
  /\ meal_plan = [new_meal_plan(0) EXCEPT ![0].dinner = "Sheet Pan Chicken Fajitas"]
  /\ grocery_list = << >>
  /\ kroger_store = store_of(ZIP_CODE)
  /\ store_cache = cache_put(no_cache, ZIP_CODE, store_of(ZIP_CODE))
  /\ session_sale_items = << >>
  /\ rotator_recipes = expanded_recipes
  /\ ServerStart
  /\ ret = [op |-> "__init__", args |-> << >>, result |-> "none"]

\* a handler has left the grocery list as `list`
GroceryStep(op, arg, list, result) ==
  /\ grocery_list' = list
  /\ ret' = [op |-> op, args |-> <<arg>>, result |-> result]
  /\ UNCHANGED << calendar_events, meal_plan, kroger_store, store_cache,
                  session_sale_items, rotator_recipes, serverVars, prefsVars,
                  historyVars >>

\* "Add Item"
AddItem(new_item) ==
  GroceryStep("add_item", new_item,
              IF new_item # "" THEN append_if_absent(grocery_list, new_item)
                               ELSE grocery_list,
              IF new_item # "" /\ ~InList(new_item, grocery_list) THEN "Added!"
              ELSE IF InList(new_item, grocery_list) THEN "Already on list!"
              ELSE "none")

\* "Generate Grocery List", pressed at any time
GenerateGroceries ==
  \E list \in generate_grocery_list(grocery_list, meal_plan) :
    GroceryStep("generate_grocery_list", "meal_plan", list,
                Cardinality(Range(grocery_new_items(meal_plan, 0))))

\* "+ Ingredients" of a recommended recipe
AddIngredients(recipe) ==
  GroceryStep("add_ingredients", recipe.title,
              add_ingredients(grocery_list, GetAllIngredients(recipe), 1),
              Len(add_ingredients(grocery_list, GetAllIngredients(recipe), 1))
                - Len(grocery_list))

\* "Add to List" of a sale item
AddToList(item) ==
  GroceryStep("add_to_list", item.name,
              append_if_absent(grocery_list, item.name), "none")

\* the remove button beside an item of the list
RemoveItem(item) ==
  /\ InList(item, grocery_list)
  /\ GroceryStep("remove_item", item, ListRemove(grocery_list, item), "none")

\* "Clear All" of the grocery tab
ClearGroceryList == GroceryStep("clear_all", "", << >>, "List cleared!")

NextGrocery ==
  \/ \E new_item \in TypedItems : AddItem(new_item)
  \/ GenerateGroceries
  \/ AddIngredients(ShownRecipe)
  \/ AddToList(StoreSaleItems[1])
  \/ \E item \in RemovedItems : RemoveItem(item)
  \/ ClearGroceryList

SpecGrocery == InitGrocery /\ [][NextGrocery]_vars

\* C29: from the empty list on, after any sequence of Add Item, Generate
\* Grocery List, + Ingredients, Add to List, removals and Clear All, the
\* grocery list holds no item twice.
GroceryListHasNoDuplicates ==
  \A i, j \in 1..Len(grocery_list) : grocery_list[i] = grocery_list[j] => i = j

\* "olive oil" was typed in first, the list was generated and a recipe's
\* ingredients added, both of which name olive oil: it is on the list once
GroceryListHasNoDuplicatesWitness ==
  /\ Len(grocery_list) >= 7
  /\ grocery_list[1] = "olive oil"
  /\ ret.op = "add_ingredients"
  /\ \E i \in 1..Len(grocery_list) : grocery_list[i] = "chicken breast"
  /\ \E i \in 1..Len(grocery_list) : grocery_list[i] = "fajita seasoning"

\* C30: a day that is_busy_day reports busy never gets the light-schedule
\* recommendation (any_style / full_cooking_ok, "perfect day for cooking
\* projects"), and a day reported light never gets the quick-and-easy or the
\* late-night recommendation, whatever the events of the day are.
BusyAndRecommendationAgree ==
  (ret.op = "is_busy_day") =>
    /\ ret.result.is_busy =>
         /\ ret.result.recommendation.meal_style # "any_style"
         /\ ret.result.recommendation.prep_style # "full_cooking_ok"
    /\ ~ret.result.is_busy =>
         ret.result.recommendation.meal_style
           \notin {"quick_and_easy", "late_night_ready"}
====
